---- MODULE Spec2Model ----
(***************************************************************************)
(* CurveStableSwapNG (the invariant engine) and CurveAMO (the peg solvers  *)
(* built on it), as a state machine over one engine instance.              *)
(*                                                                         *)
(* Arithmetic is the code's: JavaScript bigint, whose division truncates   *)
(* toward zero and throws on a zero divisor.  The model checker's integers *)
(* are 32 bits wide, so the fixed-point scales are reduced: PRECISION is   *)
(* 10^3 instead of 10^18 and FEE_DENOMINATOR 10^2 instead of 10^10, with   *)
(* ADMIN_FEE kept at half the fee denominator.  A_PRECISION is the code's. *)
(* With rates equal to PRECISION the normalised balances are the balances, *)
(* so all the engine's amounts are those the code computes on a pool of    *)
(* the same (small) balances; prices carry 3 decimals instead of 18.       *)
(*                                                                         *)
(* `assert` in both classes is node:console's assert, which logs and       *)
(* returns: the asserts of the code guard nothing and are modelled as      *)
(* no-ops.  What throws is: an explicit `throw`, a division by zero, an    *)
(* operation on an undefined array element.                                *)
(*                                                                         *)
(* Notation: Bind(v, LAMBDA x : body) is `const x = v; body`: the value is *)
(* computed once, where the declaration stands, and named in what follows. *)
(***************************************************************************)
EXTENDS Integers, Sequences, FiniteSets, TLC

\* ---------------------------------------------------------------- constants
PRECISION == 1000
FEE_DENOMINATOR == 100
A_PRECISION == 100
ADMIN_FEE == 50
\* iteration cap of the three Newton solvers
NEWTON_ITERS == 255
\* params.n of the pools the tests build
N == 2

Coins == 0 .. (N - 1)

\* ---------------------------------------------------------------- bounds
\* largest balance of a coin in an initial pool
MaxBal == 5
\* largest amount (dx, deposit, burn, search bound) a caller passes
MaxAmt == 5
\* number of mutating engine calls in a behaviour
MaxSteps == 1

VARIABLES
    p,              \* CurveStableSwapNGParams: amp, fee, offpegFeeMultiplier, rates
    balances,       \* this.balances
    adminBalances,  \* this.adminBalances
    totalSupply,    \* this.totalSupply
    snap,           \* the caller's snapshot object, or NoSnap
    snapAt,         \* history: the engine state when snap was taken
    steps,          \* history: number of mutating calls so far
    last,           \* history: the last call, its arguments, pre-state and outcome
    heap,           \* the arrays behind the caller's objects, where their sharing
                    \* is followed (NoHeap elsewhere)
    run             \* the position of a solver's loop, where it is followed step
                    \* by step (NoRun elsewhere)

vars == <<p, balances, adminBalances, totalSupply, snap, snapAt, steps, last, heap, run>>

\* ---------------------------------------------------------------- helpers
abs(x) == IF x < 0 THEN -x ELSE x

\* bigint division: truncates toward zero (b # 0)
Div(a, b) ==
    IF (a >= 0) = (b > 0) THEN abs(a) \div abs(b) ELSE -(abs(a) \div abs(b))

Ok(v) == [ok |-> TRUE, v |-> v]
Throw == [ok |-> FALSE, v |-> 0]

\* the engine's mutable state as a value
Engine == [balances |-> balances, adminBalances |-> adminBalances,
           totalSupply |-> totalSupply]

ZeroAmounts == [i \in Coins |-> 0]

\* ---------------------------------------------------------------- engine
snapshot(e) ==
    [balances |-> e.balances, adminBalances |-> e.adminBalances,
     totalSupply |-> e.totalSupply]

\* restore as it would be had it forgotten the LP supply
restore_keepSupply(e, s) ==
    [balances |-> s.balances, adminBalances |-> s.adminBalances,
     totalSupply |-> e.totalSupply]

restore(e, s) ==
    [balances |-> s.balances, adminBalances |-> s.adminBalances,
     totalSupply |-> s.totalSupply]


xp(b) == [i \in Coins |-> Div(p.rates[i] * b[i], PRECISION)]

dynamicFee(xpi, xpj, baseFee) ==
    LET offpeg == p.offpegFeeMultiplier IN
    IF offpeg <= FEE_DENOMINATOR THEN Ok(baseFee)
    ELSE LET xps2 == (xpi + xpj) * (xpi + xpj)
             num == offpeg * baseFee
         IN  IF xps2 = 0 THEN Throw
             ELSE LET den == Div((offpeg - FEE_DENOMINATOR) * 4 * xpi * xpj, xps2)
                             + FEE_DENOMINATOR
                  IN  IF den = 0 THEN Throw ELSE Ok(Div(num, den))

RECURSIVE SumXp(_, _)
SumXp(x, k) == IF k = N THEN 0 ELSE x[k] + SumXp(x, k + 1)

RECURSIVE PowInt(_, _)
PowInt(b, e) == IF e = 0 THEN 1 ELSE b * PowInt(b, e - 1)

\* for (const x of xp) DP = (DP * D) / x
RECURSIVE getD_DP(_, _, _, _)
getD_DP(x, D, DP, k) ==
    IF k = N THEN DP ELSE getD_DP(x, D, Div(DP * D, x[k]), k + 1)

RECURSIVE getD_iter(_, _, _, _, _)
getD_iter(x, Ann, S, D, iter) ==
    LET Bind(v, K(_)) == K(v) IN
    IF iter = NEWTON_ITERS THEN Throw
    ELSE IF \E k \in Coins : x[k] = 0 THEN Throw
    ELSE
    Bind(Div(getD_DP(x, D, D, 0), PowInt(N, N)), LAMBDA DP :
    Bind((Div(Ann * S, A_PRECISION) + DP * N) * D, LAMBDA num :
    Bind(Div((Ann - A_PRECISION) * D, A_PRECISION) + (N + 1) * DP, LAMBDA den :
    IF den = 0 THEN Throw
    ELSE
    Bind(Div(num, den), LAMBDA Dn :
    IF abs(Dn - D) <= 1 THEN Ok(Dn)
    ELSE getD_iter(x, Ann, S, Dn, iter + 1)))))

getD(x, amp) ==
    LET Bind(v, K(_)) == K(v) IN
    Bind(SumXp(x, 0), LAMBDA S :
    IF S = 0 THEN Ok(0) ELSE getD_iter(x, amp * N, S, S, 0))

\* y = (y*y + c) / (2y + b - D) until |y - yPrev| <= 1
RECURSIVE newtonY(_, _, _, _, _)
newtonY(y, c, b, D, iter) ==
    LET Bind(v, K(_)) == K(v) IN
    IF iter = NEWTON_ITERS THEN Throw
    ELSE
    Bind(2 * y + b - D, LAMBDA den :
    IF den = 0 THEN Throw
    ELSE
    Bind(Div(y * y + c, den), LAMBDA yn :
    IF abs(yn - y) <= 1 THEN Ok(yn)
    ELSE newtonY(yn, c, b, D, iter + 1)))

\* the loop of getY over the coins: [ok, S_, c]
RECURSIVE getY_sum(_, _, _, _, _, _, _, _)
getY_sum(i, j, x, xpv, D, S_, c, k) ==
    IF k = N THEN [ok |-> TRUE, S_ |-> S_, c |-> c]
    ELSE IF k # i /\ k = j THEN getY_sum(i, j, x, xpv, D, S_, c, k + 1)
    ELSE LET xk == IF k = i THEN x ELSE xpv[k]
         IN  IF xk * N = 0 THEN [ok |-> FALSE, S_ |-> 0, c |-> 0]
             ELSE getY_sum(i, j, x, xpv, D, S_ + xk, Div(c * D, xk * N), k + 1)

getY(i, j, x, xpv, amp, D) ==
    LET Bind(v, K(_)) == K(v)
        Ann == amp * N
    IN
    Bind(getY_sum(i, j, x, xpv, D, 0, D, 0), LAMBDA l :
    IF ~l.ok \/ Ann * N = 0 THEN Throw
    ELSE newtonY(D, Div(l.c * D * A_PRECISION, Ann * N),
                 l.S_ + Div(D * A_PRECISION, Ann), D, 0))

\* the loop of getY_D over the coins: [ok, S_, c]
RECURSIVE getY_D_sum(_, _, _, _, _, _)
getY_D_sum(i, xpv, D, S_, c, k) ==
    IF k = N THEN [ok |-> TRUE, S_ |-> S_, c |-> c]
    ELSE IF k = i THEN getY_D_sum(i, xpv, D, S_, c, k + 1)
    ELSE IF xpv[k] * N = 0 THEN [ok |-> FALSE, S_ |-> 0, c |-> 0]
    ELSE getY_D_sum(i, xpv, D, S_ + xpv[k], Div(c * D, xpv[k] * N), k + 1)

getY_D(A, i, xpv, D) ==
    LET Bind(v, K(_)) == K(v)
        Ann == A * N
    IN
    Bind(getY_D_sum(i, xpv, D, 0, D, 0), LAMBDA l :
    IF ~l.ok \/ Ann * N = 0 THEN Throw
    ELSE newtonY(D, Div(l.c * D * A_PRECISION, Ann * N),
                 l.S_ + Div(D * A_PRECISION, Ann), D, 0))

\* for (k = 0; k < n; k++) Dr = (Dr * D) / xp[k]
RECURSIVE getP_Dr(_, _, _, _)
getP_Dr(xpv, D, Dr, k) ==
    IF k = N THEN Dr ELSE getP_Dr(xpv, D, Div(Dr * D, xpv[k]), k + 1)

\* [ok, v] with v the function i \in 1..N-1 |-> out[i-1]
getPRelativeToCoin0(e) ==
    LET Bind(v, K(_)) == K(v) IN
    Bind(xp(e.balances), LAMBDA xpv :
    Bind(getD(xpv, p.amp), LAMBDA D :
    IF ~D.ok \/ \E k \in Coins : xpv[k] = 0 THEN Throw
    ELSE
    Bind(getP_Dr(xpv, D.v, Div(D.v, PowInt(N, N)), 0), LAMBDA Dr :
    Bind(Div(p.amp * N * xpv[0], A_PRECISION), LAMBDA xp0_A :
    IF xp0_A + Dr = 0 THEN Throw
    ELSE Ok([i \in 1 .. (N - 1) |->
               Div(PRECISION * (xp0_A + Div(Dr * xpv[0], xpv[i])), xp0_A + Dr)])))))

\* priceCoin0ToK_1e18 as it would be if an out-of-range k read the price of coin 1
priceCoin0ToK_1e18_anyIndex(e, k) ==
    LET Bind(v, K(_)) == K(v) IN
    Bind(getPRelativeToCoin0(e), LAMBDA P :
    IF ~P.ok THEN Throw
    ELSE Bind(IF k \in 1 .. (N - 1) THEN k ELSE 1, LAMBDA kk :
         IF P.v[kk] = 0 THEN Throw
         ELSE Ok(Div(PRECISION * PRECISION, P.v[kk]))))

\* out[k-1] of an out-of-range k is undefined, and dividing by it throws
priceCoin0ToK_1e18(e, k) ==
    LET Bind(v, K(_)) == K(v) IN
    Bind(getPRelativeToCoin0(e), LAMBDA P :
    IF ~P.ok THEN Throw
    ELSE IF k \notin 1 .. (N - 1) THEN Throw
    ELSE IF P.v[k] = 0 THEN Throw
    ELSE Ok(Div(PRECISION * PRECISION, P.v[k])))

\* [ok, dyOut, adminFeeReal, newBalances, newAdminBalances]
ExchangeThrow == [ok |-> FALSE, dyOut |-> 0, adminFeeReal |-> 0,
                  newBalances |-> ZeroAmounts, newAdminBalances |-> ZeroAmounts]

simulateExchange(e, i, j, dx) ==
    LET Bind(v, K(_)) == K(v) IN
    Bind(xp(e.balances), LAMBDA xpv :
    Bind(getD(xpv, p.amp), LAMBDA D :
    IF ~D.ok THEN ExchangeThrow
    ELSE
    Bind(xpv[i] + Div(dx * p.rates[i], PRECISION), LAMBDA x :
    Bind(getY(i, j, x, xpv, p.amp, D.v), LAMBDA y :
    IF ~y.ok THEN ExchangeThrow
    ELSE
    Bind(xpv[j] - y.v - 1, LAMBDA dy :
    Bind(dynamicFee(Div(xpv[i] + x, 2), Div(xpv[j] + y.v, 2), p.fee), LAMBDA feeHere :
    IF ~feeHere.ok \/ p.rates[j] = 0 THEN ExchangeThrow
    ELSE
    Bind(Div(dy * feeHere.v, FEE_DENOMINATOR), LAMBDA dyFee :
    Bind(Div((dy - dyFee) * PRECISION, p.rates[j]), LAMBDA dyOut :
    Bind(Div(Div(dyFee * ADMIN_FEE, FEE_DENOMINATOR) * PRECISION, p.rates[j]),
         LAMBDA adminFeeReal :
    Bind([e.balances EXCEPT ![i] = @ + dx, ![j] = @ - (dyOut + adminFeeReal)],
         LAMBDA newBal :
    IF newBal[j] < 0 THEN ExchangeThrow
    ELSE [ok |-> TRUE, dyOut |-> dyOut, adminFeeReal |-> adminFeeReal,
          newBalances |-> newBal,
          newAdminBalances |-> [e.adminBalances EXCEPT ![j] = @ + adminFeeReal]]
    ))))))))))

getDy(e, i, j, dx) ==
    LET Bind(v, K(_)) == K(v) IN
    Bind(simulateExchange(e, i, j, dx), LAMBDA r :
    IF r.ok THEN Ok(r.dyOut) ELSE Throw)

\* a mutating call's outcome: the engine after it, whether it returned, its value
Ret(e, v) == [e |-> e, ok |-> TRUE, v |-> v]
Thrown(e) == [e |-> e, ok |-> FALSE, v |-> 0]

exchange(e, i, j, dx) ==
    LET Bind(v, K(_)) == K(v) IN
    Bind(simulateExchange(e, i, j, dx), LAMBDA r :
    IF ~r.ok THEN Thrown(e)
    ELSE Ret([e EXCEPT !.balances = r.newBalances,
                       !.adminBalances = r.newAdminBalances], r.dyOut))

\* ---- add_liquidity ----
QuoteThrow == [ok |-> FALSE, amount |-> 0, fees |-> ZeroAmounts, adminFees |-> ZeroAmounts]

\* the imbalance fee of coin i in addLiquidityQuote and removeLiquidityImbalanceQuote:
\* [ok, fee, admin]
imbalanceFee(oldBalances, newBalances, D0, D1, i) ==
    LET Bind(v, K(_)) == K(v) IN
    IF D0 = 0 \/ N - 1 = 0 THEN [ok |-> FALSE, fee |-> 0, admin |-> 0]
    ELSE
    Bind(Div(D1 * oldBalances[i], D0), LAMBDA ideal :
    Bind(IF ideal > newBalances[i] THEN ideal - newBalances[i]
         ELSE newBalances[i] - ideal, LAMBDA diff :
    Bind(dynamicFee(Div(p.rates[i] * (oldBalances[i] + newBalances[i]), PRECISION),
                    Div(D0 + D1, N), Div(p.fee * N, 4 * (N - 1))), LAMBDA dynFee :
    IF ~dynFee.ok THEN [ok |-> FALSE, fee |-> 0, admin |-> 0]
    ELSE
    Bind(Div(dynFee.v * diff, FEE_DENOMINATOR), LAMBDA feeI :
    [ok |-> TRUE, fee |-> feeI, admin |-> Div(feeI * ADMIN_FEE, FEE_DENOMINATOR)]))))


\* addLiquidityQuote as it would be without the check of the initial deposit
addLiquidityQuote_anyFirstDeposit(e, amounts) ==
    LET Bind(v, K(_)) == K(v)
        oldBalances == e.balances
    IN
    Bind(getD(xp(oldBalances), p.amp), LAMBDA D0 :
    Bind([i \in Coins |-> IF amounts[i] > 0 THEN oldBalances[i] + amounts[i]
                          ELSE oldBalances[i]], LAMBDA newBalances :
    IF ~D0.ok THEN QuoteThrow
    ELSE
    Bind(getD(xp(newBalances), p.amp), LAMBDA D1 :
    IF ~D1.ok THEN QuoteThrow
    ELSE IF D1.v <= D0.v THEN QuoteThrow
    ELSE IF e.totalSupply > 0 THEN
        Bind([i \in Coins |-> imbalanceFee(oldBalances, newBalances, D0.v, D1.v, i)],
             LAMBDA f :
        IF \E i \in Coins : ~f[i].ok THEN QuoteThrow
        ELSE
        Bind(getD(xp([i \in Coins |-> newBalances[i] - f[i].fee]), p.amp),
             LAMBDA D1Adj :
        IF ~D1Adj.ok THEN QuoteThrow
        ELSE [ok |-> TRUE,
              amount |-> Div(e.totalSupply * (D1Adj.v - D0.v), D0.v),
              fees |-> [i \in Coins |-> f[i].fee],
              adminFees |-> [i \in Coins |-> f[i].admin]]))
    ELSE [ok |-> TRUE, amount |-> D1.v, fees |-> ZeroAmounts,
          adminFees |-> ZeroAmounts])))

\* [ok, amount (the mintAmount), fees, adminFees]
addLiquidityQuote(e, amounts) ==
    LET Bind(v, K(_)) == K(v)
        oldBalances == e.balances
    IN
    Bind(getD(xp(oldBalances), p.amp), LAMBDA D0 :
    Bind([i \in Coins |-> IF amounts[i] > 0 THEN oldBalances[i] + amounts[i]
                          ELSE oldBalances[i]], LAMBDA newBalances :
    IF ~D0.ok THEN QuoteThrow
    ELSE IF e.totalSupply = 0 /\ \E i \in Coins : ~(amounts[i] > 0) THEN QuoteThrow
    ELSE
    Bind(getD(xp(newBalances), p.amp), LAMBDA D1 :
    IF ~D1.ok THEN QuoteThrow
    ELSE IF D1.v <= D0.v THEN QuoteThrow
    ELSE IF e.totalSupply > 0 THEN
        Bind([i \in Coins |-> imbalanceFee(oldBalances, newBalances, D0.v, D1.v, i)],
             LAMBDA f :
        IF \E i \in Coins : ~f[i].ok THEN QuoteThrow
        ELSE
        Bind(getD(xp([i \in Coins |-> newBalances[i] - f[i].fee]), p.amp),
             LAMBDA D1Adj :
        IF ~D1Adj.ok THEN QuoteThrow
        ELSE [ok |-> TRUE,
              amount |-> Div(e.totalSupply * (D1Adj.v - D0.v), D0.v),
              fees |-> [i \in Coins |-> f[i].fee],
              adminFees |-> [i \in Coins |-> f[i].admin]]))
    ELSE [ok |-> TRUE, amount |-> D1.v, fees |-> ZeroAmounts,
          adminFees |-> ZeroAmounts])))

\* the in-place loop of addLiquidity from coin i on: [e, ok]
RECURSIVE addLiquidity_apply(_, _, _, _)
addLiquidity_apply(e, amounts, adminFees, i) ==
    LET Bind(v, K(_)) == K(v) IN
    IF i = N THEN [e |-> e, ok |-> TRUE]
    ELSE
    Bind(IF amounts[i] > 0 THEN [e EXCEPT !.balances[i] = @ + amounts[i]] ELSE e,
         LAMBDA e1 :
    IF adminFees[i] > 0 THEN
        Bind([e1 EXCEPT !.balances[i] = @ - adminFees[i]], LAMBDA e2 :
        IF e2.balances[i] < 0 THEN [e |-> e2, ok |-> FALSE]
        ELSE addLiquidity_apply([e2 EXCEPT !.adminBalances[i] = @ + adminFees[i]],
                                amounts, adminFees, i + 1))
    ELSE addLiquidity_apply(e1, amounts, adminFees, i + 1))

addLiquidity(e, amounts) ==
    LET Bind(v, K(_)) == K(v) IN
    Bind(addLiquidityQuote(e, amounts), LAMBDA q :
    IF ~q.ok THEN Thrown(e)
    ELSE
    Bind(addLiquidity_apply(e, amounts, q.adminFees, 0), LAMBDA a :
    IF ~a.ok THEN Thrown(a.e)
    ELSE Ret([a.e EXCEPT !.totalSupply = @ + q.amount], q.amount)))

\* ---- remove_liquidity ----
withdrawAdminFees(e) ==
    Ret([e EXCEPT !.adminBalances = ZeroAmounts], e.adminBalances)

removeLiquidity(e, burnAmount, claimAdminFees) ==
    LET Bind(v, K(_)) == K(v) IN
    IF e.totalSupply = 0 THEN Thrown(e)
    ELSE
    Bind([i \in Coins |-> Div(e.balances[i] * burnAmount, e.totalSupply)], LAMBDA outs :
    Bind([e EXCEPT !.balances = [i \in Coins |-> e.balances[i] - outs[i]],
                   !.totalSupply = @ - burnAmount], LAMBDA e1 :
    IF claimAdminFees THEN Ret(withdrawAdminFees(e1).e, outs)
    ELSE Ret(e1, outs)))

\* ---- remove_liquidity_one_coin ----
OneCoinThrow == [ok |-> FALSE, dy |-> 0, fee |-> 0]

\* xpReduced[j] of calcWithdrawOneCoinQuote: [ok, v]
xpReducedOf(xpv, D0, D1, newY, i, j) ==
    LET Bind(v, K(_)) == K(v)
        xpJ == xpv[j]
    IN
    IF D0 = 0 \/ N - 1 = 0 THEN Throw
    ELSE
    Bind(IF j = i THEN Div(xpJ * D1, D0) - newY ELSE xpJ - Div(xpJ * D1, D0),
         LAMBDA dxExpected :
    Bind(dynamicFee(IF j = i THEN Div(xpJ + newY, 2) ELSE xpJ, Div(D0 + D1, 2 * N),
                    Div(p.fee * N, 4 * (N - 1))), LAMBDA dynFee :
    IF ~dynFee.ok THEN Throw
    ELSE Ok(xpJ - Div(dynFee.v * dxExpected, FEE_DENOMINATOR))))

\* [ok, dy, fee]; an index i outside the coins makes xpReduced[i] undefined
calcWithdrawOneCoinQuote(e, burnAmount, i) ==
    LET Bind(v, K(_)) == K(v) IN
    Bind(xp(e.balances), LAMBDA xpv :
    Bind(getD(xpv, p.amp), LAMBDA D0 :
    IF ~D0.ok \/ e.totalSupply = 0 \/ i \notin Coins THEN OneCoinThrow
    ELSE
    Bind(D0.v - Div(burnAmount * D0.v, e.totalSupply), LAMBDA D1 :
    Bind(getY_D(p.amp, i, xpv, D1), LAMBDA newY :
    IF ~newY.ok THEN OneCoinThrow
    ELSE
    Bind([j \in Coins |-> xpReducedOf(xpv, D0.v, D1, newY.v, i, j)], LAMBDA r :
    IF \E j \in Coins : ~r[j].ok THEN OneCoinThrow
    ELSE
    Bind([j \in Coins |-> r[j].v], LAMBDA xpReduced :
    Bind(getY_D(p.amp, i, xpReduced, D1), LAMBDA y2 :
    IF ~y2.ok \/ p.rates[i] = 0 THEN OneCoinThrow
    ELSE
    Bind(Div((xpv[i] - newY.v) * PRECISION, p.rates[i]), LAMBDA dy0 :
    Bind(Div((xpReduced[i] - y2.v - 1) * PRECISION, p.rates[i]), LAMBDA dy :
    IF dy < 0 \/ dy0 - dy < 0 THEN OneCoinThrow
    ELSE [ok |-> TRUE, dy |-> dy, fee |-> dy0 - dy])))))))))

\* calcWithdrawOneCoin as it would be if it quoted the amount before the fee
calcWithdrawOneCoin_beforeFee(e, burnAmount, i) ==
    LET Bind(v, K(_)) == K(v) IN
    Bind(calcWithdrawOneCoinQuote(e, burnAmount, i), LAMBDA q :
    IF q.ok THEN Ok(q.dy + q.fee) ELSE Throw)

calcWithdrawOneCoin(e, burnAmount, i) ==
    LET Bind(v, K(_)) == K(v) IN
    Bind(calcWithdrawOneCoinQuote(e, burnAmount, i), LAMBDA q :
    IF q.ok THEN Ok(q.dy) ELSE Throw)

removeLiquidityOneCoin(e, burnAmount, i) ==
    LET Bind(v, K(_)) == K(v) IN
    Bind(calcWithdrawOneCoinQuote(e, burnAmount, i), LAMBDA q :
    IF ~q.ok THEN Thrown(e)
    ELSE
    Bind(Div(q.fee * ADMIN_FEE, FEE_DENOMINATOR), LAMBDA adminPart :
    Bind([e EXCEPT !.totalSupply = @ - burnAmount,
                   !.balances[i] = @ - (q.dy + adminPart)], LAMBDA e1 :
    IF e1.balances[i] < 0 THEN Thrown(e1)
    ELSE Ret([e1 EXCEPT !.adminBalances[i] = @ + adminPart], q.dy))))

\* ---- remove_liquidity_imbalance ----
\* [ok, amount (the burnAmount), fees, adminFees]
removeLiquidityImbalanceQuote(e, amounts) ==
    LET Bind(v, K(_)) == K(v)
        oldBalances == e.balances
    IN
    Bind(getD(xp(oldBalances), p.amp), LAMBDA D0 :
    Bind([i \in Coins |-> IF amounts[i] # 0 THEN oldBalances[i] - amounts[i]
                          ELSE oldBalances[i]], LAMBDA newBalances :
    IF ~D0.ok THEN QuoteThrow
    ELSE IF \E i \in Coins : amounts[i] # 0 /\ oldBalances[i] < amounts[i]
    THEN QuoteThrow
    ELSE
    Bind(getD(xp(newBalances), p.amp), LAMBDA D1 :
    IF ~D1.ok THEN QuoteThrow
    ELSE
    Bind([i \in Coins |-> imbalanceFee(oldBalances, newBalances, D0.v, D1.v, i)],
         LAMBDA f :
    IF \E i \in Coins : ~f[i].ok THEN QuoteThrow
    ELSE
    Bind(getD(xp([i \in Coins |-> newBalances[i] - f[i].fee]), p.amp), LAMBDA D1Adj :
    IF ~D1Adj.ok THEN QuoteThrow
    ELSE
    Bind(Div((D0.v - D1Adj.v) * e.totalSupply, D0.v) + 1, LAMBDA burnAmount :
    IF burnAmount <= 1 THEN QuoteThrow
    ELSE [ok |-> TRUE, amount |-> burnAmount,
          fees |-> [i \in Coins |-> f[i].fee],
          adminFees |-> [i \in Coins |-> f[i].admin]]))))))

\* the second in-place loop of removeLiquidityImbalance from coin i on: [e, ok]
RECURSIVE removeLiquidityImbalance_fees(_, _, _)
removeLiquidityImbalance_fees(e, adminFees, i) ==
    LET Bind(v, K(_)) == K(v) IN
    IF i = N THEN [e |-> e, ok |-> TRUE]
    ELSE IF adminFees[i] > 0 THEN
        Bind([e EXCEPT !.balances[i] = @ - adminFees[i]], LAMBDA e2 :
        IF e2.balances[i] < 0 THEN [e |-> e2, ok |-> FALSE]
        ELSE removeLiquidityImbalance_fees(
                [e2 EXCEPT !.adminBalances[i] = @ + adminFees[i]], adminFees, i + 1))
    ELSE removeLiquidityImbalance_fees(e, adminFees, i + 1)

\* a call that passes no maxBurnAmount
Undefined == -1

\* removeLiquidityImbalance as it would be without the slippage check
removeLiquidityImbalance_noSlippage(e, amounts, maxBurnAmount) ==
    LET Bind(v, K(_)) == K(v) IN
    Bind(removeLiquidityImbalanceQuote(e, amounts), LAMBDA q :
    IF ~q.ok THEN Thrown(e)
    ELSE IF q.amount > e.totalSupply THEN Thrown(e)
    ELSE
    Bind(removeLiquidityImbalance_fees(
            [e EXCEPT !.balances = [i \in Coins |-> IF amounts[i] # 0
                                                    THEN e.balances[i] - amounts[i]
                                                    ELSE e.balances[i]]],
            q.adminFees, 0), LAMBDA a :
    IF ~a.ok THEN Thrown(a.e)
    ELSE Ret([a.e EXCEPT !.totalSupply = @ - q.amount], q.amount)))

removeLiquidityImbalance(e, amounts, maxBurnAmount) ==
    LET Bind(v, K(_)) == K(v) IN
    Bind(removeLiquidityImbalanceQuote(e, amounts), LAMBDA q :
    IF ~q.ok THEN Thrown(e)
    ELSE IF maxBurnAmount # Undefined /\ q.amount > maxBurnAmount THEN Thrown(e)
    ELSE IF q.amount > e.totalSupply THEN Thrown(e)
    ELSE
    Bind(removeLiquidityImbalance_fees(
            [e EXCEPT !.balances = [i \in Coins |-> IF amounts[i] # 0
                                                    THEN e.balances[i] - amounts[i]
                                                    ELSE e.balances[i]]],
            q.adminFees, 0), LAMBDA a :
    IF ~a.ok THEN Thrown(a.e)
    ELSE Ret([a.e EXCEPT !.totalSupply = @ - q.amount], q.amount)))

calcTokenAmount(e, amounts, isDeposit) ==
    LET Bind(v, K(_)) == K(v) IN
    Bind(IF isDeposit THEN addLiquidityQuote(e, amounts)
         ELSE removeLiquidityImbalanceQuote(e, amounts), LAMBDA q :
    IF q.ok THEN Ok(q.amount) ELSE Throw)

\* ---------------------------------------------------------------- solvers
\* A solver call runs on a machine m: the engine it mutates and restores, the
\* number of probes evaluated so far, and whether a probe's trial action threw.
Machine(e) == [e |-> e, probes |-> 0, probeThrew |-> FALSE]

\* the bracket without its finally: the snapshot is restored on return only
bracket_noFinally(s0, r, k) ==
    LET Bind(v, K(_)) == K(v) IN
    Bind(IF r.ok THEN priceCoin0ToK_1e18(r.e, k) ELSE Throw, LAMBDA pr :
    [e |-> IF pr.ok THEN restore(r.e, s0) ELSE r.e, ok |-> pr.ok,
     price |-> pr.v, v |-> r.v, actionThrew |-> ~r.ok])

\* s0 = this.snapshot(); try { <trial r>; return currentPrice() } finally { this.restore(s0) }
\* [e, ok, price, v]: the engine after the bracket, whether it returned, the
\* price measured, the trial action's value
bracket(s0, r, k) ==
    LET Bind(v, K(_)) == K(v) IN
    Bind(IF r.ok THEN priceCoin0ToK_1e18(r.e, k) ELSE Throw, LAMBDA pr :
    [e |-> restore(r.e, s0), ok |-> pr.ok, price |-> pr.v, v |-> r.v,
     actionThrew |-> ~r.ok])

OneSided(coinIndex, amount) == [ZeroAmounts EXCEPT ![coinIndex] = amount]

solveDxToTargetPrice_postPrice(e, iIn, jOut, dx, k) ==
    bracket(snapshot(e), exchange(e, iIn, jOut, dx), k)

solveOneSidedAddToTargetPrice_postPrice(e, coinIndex, amount, k) ==
    bracket(snapshot(e), addLiquidity(e, OneSided(coinIndex, amount)), k)

solveOneSidedRemoveToTargetPrice_postPrice(e, coinIndex, burnAmount, k) ==
    bracket(snapshot(e), removeLiquidityOneCoin(e, burnAmount, coinIndex), k)

\* the postPrice closure of the target-crossing solver `op`, run on machine m
postPrice(op, m, dir, amount, k) ==
    LET Bind(v, K(_)) == K(v) IN
    Bind(CASE op = "solveDxToTargetPrice" ->
                solveDxToTargetPrice_postPrice(m.e, dir.iIn, dir.jOut, amount, k)
           [] op = "solveOneSidedAddToTargetPrice" ->
                solveOneSidedAddToTargetPrice_postPrice(m.e, dir.coinIndex, amount, k)
           [] op = "solveOneSidedRemoveToTargetPrice" ->
                solveOneSidedRemoveToTargetPrice_postPrice(m.e, dir.coinIndex, amount, k),
         LAMBDA r :
    [m |-> [e |-> r.e, probes |-> m.probes + 1,
            probeThrew |-> m.probeThrew \/ r.actionThrew],
     ok |-> r.ok, price |-> r.price])

\* direction inference with the two branches exchanged
direction_swapped(op, needToLowerPrice, k) ==
    [needToLowerPrice |-> needToLowerPrice,
     iIn |-> IF needToLowerPrice THEN k ELSE 0,
     jOut |-> IF needToLowerPrice THEN 0 ELSE k,
     coinIndex |-> IF op = "solveOneSidedRemoveToTargetPrice"
                   THEN (IF needToLowerPrice THEN 0 ELSE k)
                   ELSE (IF needToLowerPrice THEN k ELSE 0)]

\* direction inference of the three target-crossing solvers
direction(op, needToLowerPrice, k) ==
    [needToLowerPrice |-> needToLowerPrice,
     iIn |-> IF needToLowerPrice THEN 0 ELSE k,
     jOut |-> IF needToLowerPrice THEN k ELSE 0,
     coinIndex |-> IF op = "solveOneSidedRemoveToTargetPrice"
                   THEN (IF needToLowerPrice THEN k ELSE 0)
                   ELSE (IF needToLowerPrice THEN 0 ELSE k)]

\* while (hi <= max && postPrice(hi) {>,<} target) hi *= 2 : [m, ok, hi]
RECURSIVE expandHi(_, _, _, _, _, _, _)
expandHi(op, m, dir, k, target, max, hi) ==
    LET Bind(v, K(_)) == K(v) IN
    IF ~(hi <= max) THEN [m |-> m, ok |-> TRUE, hi |-> hi]
    ELSE
    Bind(postPrice(op, m, dir, hi, k), LAMBDA r :
    IF ~r.ok THEN [m |-> r.m, ok |-> FALSE, hi |-> hi]
    ELSE IF (dir.needToLowerPrice /\ r.price > target)
            \/ (~dir.needToLowerPrice /\ r.price < target)
    THEN expandHi(op, r.m, dir, k, target, max, hi * 2)
    ELSE [m |-> r.m, ok |-> TRUE, hi |-> hi])

\* the bisection with hi = mid - 1 where the code has hi = mid
RECURSIVE bisectMin_dropMid(_, _, _, _, _, _, _)
bisectMin_dropMid(op, m, dir, k, target, lo, hi) ==
    LET Bind(v, K(_)) == K(v)
        mid == Div(lo + hi, 2)
    IN
    IF ~(lo < hi) THEN [m |-> m, ok |-> TRUE, lo |-> lo]
    ELSE
    Bind(postPrice(op, m, dir, mid, k), LAMBDA r :
    IF ~r.ok THEN [m |-> r.m, ok |-> FALSE, lo |-> lo]
    ELSE IF (dir.needToLowerPrice /\ r.price <= target)
            \/ (~dir.needToLowerPrice /\ r.price >= target)
    THEN bisectMin_dropMid(op, r.m, dir, k, target, lo, mid - 1)
    ELSE bisectMin_dropMid(op, r.m, dir, k, target, mid + 1, hi))

\* while (lo < hi) { mid = (lo + hi) / 2; ... } : [m, ok, lo]
RECURSIVE bisectMin(_, _, _, _, _, _, _)
bisectMin(op, m, dir, k, target, lo, hi) ==
    LET Bind(v, K(_)) == K(v)
        mid == Div(lo + hi, 2)
    IN
    IF ~(lo < hi) THEN [m |-> m, ok |-> TRUE, lo |-> lo]
    ELSE
    Bind(postPrice(op, m, dir, mid, k), LAMBDA r :
    IF ~r.ok THEN [m |-> r.m, ok |-> FALSE, lo |-> lo]
    ELSE IF (dir.needToLowerPrice /\ r.price <= target)
            \/ (~dir.needToLowerPrice /\ r.price >= target)
    THEN bisectMin(op, r.m, dir, k, target, lo, mid)
    ELSE bisectMin(op, r.m, dir, k, target, mid + 1, hi))

PriceOutput(c, t, a) == [currentPrice |-> c, targetPrice |-> t, achievablePrice |-> a]

\* a solver call's outcome: the machine after it, whether it threw, what it returned
Solved(m, ret) == [m |-> m, threw |-> FALSE, ret |-> ret]
SolverThrew(m) == [m |-> m, threw |-> TRUE, ret |-> <<>>]

\* the search reporting the current price, not the price at the maximum, when
\* the maximum falls short
targetSearch_currentAsAchieved(op, m0, price, target, max, k) ==
    LET Bind(v, K(_)) == K(v)
        dir == direction(op, price > target, k)
    IN
    Bind(expandHi(op, m0, dir, k, target, max, 1), LAMBDA x :
    IF ~x.ok THEN SolverThrew(x.m)
    ELSE
    Bind(IF x.hi > max THEN postPrice(op, x.m, dir, max, k)
         ELSE [m |-> x.m, ok |-> TRUE, price |-> 0], LAMBDA atMax :
    IF ~atMax.ok THEN SolverThrew(atMax.m)
    ELSE IF x.hi > max
            /\ ((dir.needToLowerPrice /\ atMax.price > target)
                \/ (~dir.needToLowerPrice /\ atMax.price < target))
    THEN Solved(atMax.m, [amount |-> max, dir |-> dir, canFulfill |-> FALSE,
                          priceOutput |-> PriceOutput(price, target, price)])
    ELSE
    Bind(bisectMin(op, atMax.m, dir, k, target, 1, IF x.hi > max THEN max ELSE x.hi),
         LAMBDA b :
    IF ~b.ok THEN SolverThrew(b.m)
    ELSE Solved(b.m, [amount |-> b.lo, dir |-> dir, canFulfill |-> TRUE,
                      priceOutput |-> PriceOutput(price, target, target)]))))

\* the body shared by the three target-crossing solvers, from the direction
\* inference on: [m, threw, ret = [amount, dir, canFulfill, priceOutput]]
targetSearch(op, m0, price, target, max, k) ==
    LET Bind(v, K(_)) == K(v)
        dir == direction(op, price > target, k)
    IN
    Bind(expandHi(op, m0, dir, k, target, max, 1), LAMBDA x :
    IF ~x.ok THEN SolverThrew(x.m)
    ELSE
    Bind(IF x.hi > max THEN postPrice(op, x.m, dir, max, k)
         ELSE [m |-> x.m, ok |-> TRUE, price |-> 0], LAMBDA atMax :
    IF ~atMax.ok THEN SolverThrew(atMax.m)
    ELSE IF x.hi > max
            /\ ((dir.needToLowerPrice /\ atMax.price > target)
                \/ (~dir.needToLowerPrice /\ atMax.price < target))
    THEN Solved(atMax.m, [amount |-> max, dir |-> dir, canFulfill |-> FALSE,
                          priceOutput |-> PriceOutput(price, target, atMax.price)])
    ELSE
    Bind(bisectMin(op, atMax.m, dir, k, target, 1, IF x.hi > max THEN max ELSE x.hi),
         LAMBDA b :
    IF ~b.ok THEN SolverThrew(b.m)
    ELSE Solved(b.m, [amount |-> b.lo, dir |-> dir, canFulfill |-> TRUE,
                      priceOutput |-> PriceOutput(price, target, target)]))))

\* solveDxToTargetPrice without the `price === target` return
solveDxToTargetPrice_noShortCircuit(e, targetCoinKPerCoin0, maxDx, coinKIndex) ==
    LET Bind(v, K(_)) == K(v) IN
    Bind(priceCoin0ToK_1e18(e, coinKIndex), LAMBDA price :
    IF ~price.ok THEN SolverThrew(Machine(e))
    ELSE
    Bind(targetSearch("solveDxToTargetPrice", Machine(e), price.v,
                      targetCoinKPerCoin0, maxDx, coinKIndex), LAMBDA s :
    IF s.threw THEN s
    ELSE Solved(s.m, [dx |-> s.ret.amount, iIn |-> s.ret.dir.iIn,
                      jOut |-> s.ret.dir.jOut, canFulfill |-> s.ret.canFulfill,
                      priceOutput |-> s.ret.priceOutput])))

solveDxToTargetPrice(e, targetCoinKPerCoin0, maxDx, coinKIndex) ==
    LET Bind(v, K(_)) == K(v) IN
    Bind(priceCoin0ToK_1e18(e, coinKIndex), LAMBDA price :
    IF ~price.ok THEN SolverThrew(Machine(e))
    ELSE IF price.v = targetCoinKPerCoin0
    THEN Solved(Machine(e),
                [dx |-> 0, iIn |-> 0, jOut |-> coinKIndex, canFulfill |-> TRUE,
                 priceOutput |-> PriceOutput(price.v, price.v, targetCoinKPerCoin0)])
    ELSE
    Bind(targetSearch("solveDxToTargetPrice", Machine(e), price.v,
                      targetCoinKPerCoin0, maxDx, coinKIndex), LAMBDA s :
    IF s.threw THEN s
    ELSE Solved(s.m, [dx |-> s.ret.amount, iIn |-> s.ret.dir.iIn,
                      jOut |-> s.ret.dir.jOut, canFulfill |-> s.ret.canFulfill,
                      priceOutput |-> s.ret.priceOutput])))

solveOneSidedAddToTargetPrice(e, targetCoinKPerCoin0, maxAmount, coinKIndex) ==
    LET Bind(v, K(_)) == K(v) IN
    Bind(priceCoin0ToK_1e18(e, coinKIndex), LAMBDA price :
    IF ~price.ok THEN SolverThrew(Machine(e))
    ELSE IF price.v = targetCoinKPerCoin0
    THEN Solved(Machine(e),
                [amount |-> 0, coinIndex |-> 0, canFulfill |-> TRUE,
                 priceOutput |-> PriceOutput(price.v, targetCoinKPerCoin0,
                                             targetCoinKPerCoin0)])
    ELSE
    Bind(targetSearch("solveOneSidedAddToTargetPrice", Machine(e), price.v,
                      targetCoinKPerCoin0, maxAmount, coinKIndex), LAMBDA s :
    IF s.threw THEN s
    ELSE Solved(s.m, [amount |-> s.ret.amount, coinIndex |-> s.ret.dir.coinIndex,
                      canFulfill |-> s.ret.canFulfill,
                      priceOutput |-> s.ret.priceOutput])))

solveOneSidedRemoveToTargetPrice(e, targetCoinKPerCoin0, maxBurnAmount, coinKIndex) ==
    LET Bind(v, K(_)) == K(v)
        maxBurn == IF maxBurnAmount = Undefined THEN e.totalSupply ELSE maxBurnAmount
    IN
    Bind(priceCoin0ToK_1e18(e, coinKIndex), LAMBDA price :
    IF ~price.ok THEN SolverThrew(Machine(e))
    ELSE IF price.v = targetCoinKPerCoin0
    THEN Solved(Machine(e),
                [burnAmount |-> 0, coinIndex |-> 0, tokenOut |-> 0,
                 canFulfill |-> TRUE,
                 priceOutput |-> PriceOutput(price.v, targetCoinKPerCoin0, price.v)])
    ELSE
    Bind(targetSearch("solveOneSidedRemoveToTargetPrice", Machine(e), price.v,
                      targetCoinKPerCoin0, maxBurn, coinKIndex), LAMBDA s :
    IF s.threw THEN s
    ELSE
    Bind(calcWithdrawOneCoin(s.m.e, s.ret.amount, s.ret.dir.coinIndex),
         LAMBDA tokenOut :
    IF ~tokenOut.ok THEN SolverThrew(s.m)
    ELSE Solved(s.m, [burnAmount |-> s.ret.amount,
                      coinIndex |-> s.ret.dir.coinIndex, tokenOut |-> tokenOut.v,
                      canFulfill |-> s.ret.canFulfill,
                      priceOutput |-> s.ret.priceOutput]))))

\* ---- peg-clamp search ----
maxSwapWithinPeg_postPriceAndDy(e, iIn, jOut, dx, k) ==
    bracket(snapshot(e), exchange(e, iIn, jOut, dx), k)

maxAddLiquidityWithinPeg_postPriceAndLp(e, coinIndex, amount, k) ==
    bracket(snapshot(e), addLiquidity(e, OneSided(coinIndex, amount)), k)

maxRemoveLiquidityWithinPeg_postPriceAndOut(e, coinIndex, burnAmount, k) ==
    bracket(snapshot(e), removeLiquidityOneCoin(e, burnAmount, coinIndex), k)

\* the probe closure of the peg-clamp solver `op`, run on machine m: [m, ok, price, v]
postPriceAnd(op, m, a, amount, k) ==
    LET Bind(v, K(_)) == K(v) IN
    Bind(CASE op = "maxSwapWithinPeg" ->
                maxSwapWithinPeg_postPriceAndDy(m.e, a.iIn, a.jOut, amount, k)
           [] op = "maxAddLiquidityWithinPeg" ->
                maxAddLiquidityWithinPeg_postPriceAndLp(m.e, a.coinIndex, amount, k)
           [] op = "maxRemoveLiquidityWithinPeg" ->
                maxRemoveLiquidityWithinPeg_postPriceAndOut(m.e, a.coinIndex, amount, k),
         LAMBDA r :
    [m |-> [e |-> r.e, probes |-> m.probes + 1,
            probeThrew |-> m.probeThrew \/ r.actionThrew],
     ok |-> r.ok, price |-> r.price, v |-> r.v])

withinPeg(price, pegMin, pegMax) == price >= pegMin /\ price <= pegMax

\* the bisection with its two branches exchanged: it climbs on an out-of-band probe
RECURSIVE bisectMax_inverted(_, _, _, _, _, _, _, _)
bisectMax_inverted(op, m, a, k, pegMin, pegMax, lo, hi) ==
    LET Bind(v, K(_)) == K(v)
        mid == Div(lo + hi + 1, 2)
    IN
    IF ~(lo < hi) THEN [m |-> m, ok |-> TRUE, lo |-> lo]
    ELSE
    Bind(postPriceAnd(op, m, a, mid, k), LAMBDA r :
    IF ~r.ok THEN [m |-> r.m, ok |-> FALSE, lo |-> lo]
    ELSE IF withinPeg(r.price, pegMin, pegMax)
    THEN bisectMax_inverted(op, r.m, a, k, pegMin, pegMax, lo, mid - 1)
    ELSE bisectMax_inverted(op, r.m, a, k, pegMin, pegMax, mid, hi))

\* while (lo < hi) { mid = (lo + hi + 1) / 2; ... } : [m, ok, lo]
RECURSIVE bisectMax(_, _, _, _, _, _, _, _)
bisectMax(op, m, a, k, pegMin, pegMax, lo, hi) ==
    LET Bind(v, K(_)) == K(v)
        mid == Div(lo + hi + 1, 2)
    IN
    IF ~(lo < hi) THEN [m |-> m, ok |-> TRUE, lo |-> lo]
    ELSE
    Bind(postPriceAnd(op, m, a, mid, k), LAMBDA r :
    IF ~r.ok THEN [m |-> r.m, ok |-> FALSE, lo |-> lo]
    ELSE IF withinPeg(r.price, pegMin, pegMax)
    THEN bisectMax(op, r.m, a, k, pegMin, pegMax, mid, hi)
    ELSE bisectMax(op, r.m, a, k, pegMin, pegMax, lo, mid - 1))

\* the search without its pass-through: it bisects even when the desired amount
\* lands in the band
pegSearch_noPassThrough(op, m0, a, desired, pegMin, pegMax, k) ==
    LET Bind(v, K(_)) == K(v) IN
    Bind(postPriceAnd(op, m0, a, desired, k), LAMBDA atDesired :
    IF ~atDesired.ok THEN SolverThrew(atDesired.m)
    ELSE
    Bind(bisectMax(op, atDesired.m, a, k, pegMin, pegMax, 0, desired), LAMBDA b :
    IF ~b.ok THEN SolverThrew(b.m)
    ELSE IF b.lo > 0 THEN
        Bind(postPriceAnd(op, b.m, a, b.lo, k), LAMBDA f :
        IF ~f.ok THEN SolverThrew(f.m)
        ELSE Solved(f.m, [amount |-> b.lo, v |-> f.v, constrained |-> TRUE,
                          priceAfter |-> f.price]))
    ELSE
        Bind(priceCoin0ToK_1e18(b.m.e, k), LAMBDA c :
        IF ~c.ok THEN SolverThrew(b.m)
        ELSE Solved(b.m, [amount |-> b.lo, v |-> 0, constrained |-> TRUE,
                          priceAfter |-> c.v]))))

\* the body shared by the three peg-clamp solvers:
\* [m, threw, ret = [amount, v, constrained, priceAfter]]
pegSearch(op, m0, a, desired, pegMin, pegMax, k) ==
    LET Bind(v, K(_)) == K(v) IN
    Bind(postPriceAnd(op, m0, a, desired, k), LAMBDA atDesired :
    IF ~atDesired.ok THEN SolverThrew(atDesired.m)
    ELSE IF withinPeg(atDesired.price, pegMin, pegMax)
    THEN Solved(atDesired.m, [amount |-> desired, v |-> atDesired.v,
                              constrained |-> FALSE, priceAfter |-> atDesired.price])
    ELSE
    Bind(bisectMax(op, atDesired.m, a, k, pegMin, pegMax, 0, desired), LAMBDA b :
    IF ~b.ok THEN SolverThrew(b.m)
    ELSE IF b.lo > 0 THEN
        Bind(postPriceAnd(op, b.m, a, b.lo, k), LAMBDA f :
        IF ~f.ok THEN SolverThrew(f.m)
        ELSE Solved(f.m, [amount |-> b.lo, v |-> f.v, constrained |-> TRUE,
                          priceAfter |-> f.price]))
    ELSE
        Bind(priceCoin0ToK_1e18(b.m.e, k), LAMBDA c :
        IF ~c.ok THEN SolverThrew(b.m)
        ELSE Solved(b.m, [amount |-> b.lo, v |-> 0, constrained |-> TRUE,
                          priceAfter |-> c.v]))))

maxSwapWithinPeg(e, desiredDx, iIn, jOut, pegMin, pegMax, coinKIndex) ==
    LET Bind(v, K(_)) == K(v) IN
    Bind(pegSearch("maxSwapWithinPeg", Machine(e), [iIn |-> iIn, jOut |-> jOut],
                   desiredDx, pegMin, pegMax, coinKIndex), LAMBDA s :
    IF s.threw THEN s
    ELSE Solved(s.m, [maxDx |-> s.ret.amount, dy |-> s.ret.v,
                      constrained |-> s.ret.constrained,
                      priceAfter |-> s.ret.priceAfter]))

maxAddLiquidityWithinPeg(e, desiredAmount, coinIndex, pegMin, pegMax, coinKIndex) ==
    LET Bind(v, K(_)) == K(v) IN
    Bind(pegSearch("maxAddLiquidityWithinPeg", Machine(e), [coinIndex |-> coinIndex],
                   desiredAmount, pegMin, pegMax, coinKIndex), LAMBDA s :
    IF s.threw THEN s
    ELSE Solved(s.m, [maxAmount |-> s.ret.amount, constrained |-> s.ret.constrained,
                      priceAfter |-> s.ret.priceAfter, lpTokens |-> s.ret.v]))

maxRemoveLiquidityWithinPeg(e, desiredBurnAmount, coinIndex, pegMin, pegMax, coinKIndex) ==
    LET Bind(v, K(_)) == K(v) IN
    Bind(pegSearch("maxRemoveLiquidityWithinPeg", Machine(e), [coinIndex |-> coinIndex],
                   desiredBurnAmount, pegMin, pegMax, coinKIndex), LAMBDA s :
    IF s.threw THEN s
    ELSE Solved(s.m, [maxBurnAmount |-> s.ret.amount,
                      constrained |-> s.ret.constrained,
                      priceAfter |-> s.ret.priceAfter, tokenOut |-> s.ret.v]))

\* ---- output-driven nested search ----
\* the quote the inner search of the output-driven solver `op` bisects over,
\* for input x: [e, ok, v].  getLpForAmount brackets a real addLiquidity in its
\* own snapshot/restore; the other two are pure.
innerQuote(op, e, a, x, maxInput) ==
    LET Bind(v, K(_)) == K(v) IN
    CASE op = "solveSwapForOutput" ->
            Bind(getDy(e, a.iIn, a.jOut, x), LAMBDA q :
            [e |-> e, ok |-> q.ok, v |-> q.v])
      [] op = "solveAddLiquidityForLpTokens" ->
            Bind(addLiquidity(e, OneSided(a.coinIndex, x)), LAMBDA r :
            [e |-> restore(r.e, snapshot(e)), ok |-> r.ok, v |-> r.v])
      [] op = "solveRemoveLiquidityForTokenOut" ->
            IF x > maxInput THEN [e |-> e, ok |-> TRUE, v |-> 0]
            ELSE Bind(calcWithdrawOneCoin(e, x, a.coinIndex), LAMBDA q :
                 [e |-> e, ok |-> q.ok, v |-> q.v])

\* while (hi <= maxInput && quote(hi) < target) hi *= 2 : [e, ok, hi]
RECURSIVE innerExpand(_, _, _, _, _, _)
innerExpand(op, e, a, target, maxInput, hi) ==
    LET Bind(v, K(_)) == K(v) IN
    IF ~(hi <= maxInput) THEN [e |-> e, ok |-> TRUE, hi |-> hi]
    ELSE
    Bind(innerQuote(op, e, a, hi, maxInput), LAMBDA q :
    IF ~q.ok THEN [e |-> q.e, ok |-> FALSE, hi |-> hi]
    ELSE IF q.v < target THEN innerExpand(op, q.e, a, target, maxInput, hi * 2)
    ELSE [e |-> q.e, ok |-> TRUE, hi |-> hi])

\* while (lo < hi) { mid = (lo + hi) / 2; quote(mid) >= target ? hi = mid
\* : lo = mid + 1 } : [e, ok, lo]
RECURSIVE innerBisect(_, _, _, _, _, _, _)
innerBisect(op, e, a, target, maxInput, lo, hi) ==
    LET Bind(v, K(_)) == K(v)
        mid == Div(lo + hi, 2)
    IN
    IF ~(lo < hi) THEN [e |-> e, ok |-> TRUE, lo |-> lo]
    ELSE
    Bind(innerQuote(op, e, a, mid, maxInput), LAMBDA q :
    IF ~q.ok THEN [e |-> q.e, ok |-> FALSE, lo |-> lo]
    ELSE IF q.v >= target THEN innerBisect(op, q.e, a, target, maxInput, lo, mid)
    ELSE innerBisect(op, q.e, a, target, maxInput, mid + 1, hi))

\* the action an output-driven solver applies once the inner search has its input
outputTrial(op, e, a, x) ==
    CASE op = "solveSwapForOutput" -> exchange(e, a.iIn, a.jOut, x)
      [] op = "solveAddLiquidityForLpTokens" -> addLiquidity(e, OneSided(a.coinIndex, x))
      [] op = "solveRemoveLiquidityForTokenOut" ->
            removeLiquidityOneCoin(e, x, a.coinIndex)

\* the body of getPriceAndDxForDy / getPriceAndAmountForLp /
\* getPriceAndBurnForTokenOut between snapshot and restore:
\* [e, found, threw, price, input, actual]
innerSearch(op, e, a, target, maxInput, k) ==
    LET Bind(v, K(_)) == K(v)
        none(e1, t) == [e |-> e1, found |-> FALSE, threw |-> t, price |-> 0,
                        input |-> 0, actual |-> 0]
    IN
    Bind(innerExpand(op, e, a, target, maxInput, 1), LAMBDA x :
    IF ~x.ok THEN none(x.e, TRUE)
    ELSE
    Bind(IF x.hi > maxInput THEN innerQuote(op, x.e, a, maxInput, maxInput)
         ELSE [e |-> x.e, ok |-> TRUE, v |-> target], LAMBDA atMax :
    IF ~atMax.ok THEN none(atMax.e, TRUE)
    ELSE IF x.hi > maxInput /\ atMax.v < target THEN none(atMax.e, FALSE)
    ELSE
    Bind(innerBisect(op, atMax.e, a, target, maxInput, 1,
                     IF x.hi > maxInput THEN maxInput ELSE x.hi), LAMBDA b :
    IF ~b.ok THEN none(b.e, TRUE)
    ELSE
    Bind(outputTrial(op, b.e, a, b.lo), LAMBDA r :
    Bind(IF r.ok THEN priceCoin0ToK_1e18(r.e, k) ELSE Throw, LAMBDA pr :
    IF ~pr.ok THEN none(r.e, TRUE)
    ELSE [e |-> r.e, found |-> TRUE, threw |-> FALSE, price |-> pr.v,
          input |-> b.lo, actual |-> r.v])))))

\* snap = this.snapshot(); try { ... } catch { return null }
\* finally { this.restore(snap) }, run on machine m: [m, found, price, input, actual]
getPriceAndInputFor(op, m, a, target, maxInput, k) ==
    LET Bind(v, K(_)) == K(v) IN
    Bind(innerSearch(op, m.e, a, target, maxInput, k), LAMBDA r :
    [m |-> [e |-> restore(r.e, snapshot(m.e)), probes |-> m.probes + 1,
            probeThrew |-> m.probeThrew \/ r.threw],
     found |-> r.found, price |-> r.price, input |-> r.input, actual |-> r.actual])

\* while (lo < hi) { mid = (lo + hi + 1) / 2; ... } over output targets: [m, lo]
RECURSIVE outputBisect(_, _, _, _, _, _, _, _, _)
outputBisect(op, m, a, maxInput, k, pegMin, pegMax, lo, hi) ==
    LET Bind(v, K(_)) == K(v)
        mid == Div(lo + hi + 1, 2)
    IN
    IF ~(lo < hi) THEN [m |-> m, lo |-> lo]
    ELSE
    Bind(getPriceAndInputFor(op, m, a, mid, maxInput, k), LAMBDA r :
    IF r.found /\ withinPeg(r.price, pegMin, pegMax)
    THEN outputBisect(op, r.m, a, maxInput, k, pegMin, pegMax, mid, hi)
    ELSE outputBisect(op, r.m, a, maxInput, k, pegMin, pegMax, lo, mid - 1))

\* return { 0, 0, canFulfill: false, 0, priceAfter: currentPrice() }
nothingWithinPeg(m, k) ==
    LET Bind(v, K(_)) == K(v) IN
    Bind(priceCoin0ToK_1e18(m.e, k), LAMBDA c :
    IF ~c.ok THEN SolverThrew(m)
    ELSE Solved(m, [input |-> 0, output |-> 0, actual |-> 0,
                    canFulfill |-> FALSE, priceAfter |-> c.v]))

\* the body shared by the three output-driven solvers:
\* [m, threw, ret = [input, output (the output target met), actual (the trial's
\* value), canFulfill, priceAfter]]
outputSearch(op, m0, a, desired, pegMin, pegMax, k, maxInput) ==
    LET Bind(v, K(_)) == K(v) IN
    Bind(getPriceAndInputFor(op, m0, a, desired, maxInput, k), LAMBDA atDesired :
    IF atDesired.found /\ withinPeg(atDesired.price, pegMin, pegMax)
    THEN Solved(atDesired.m, [input |-> atDesired.input, output |-> desired,
                              actual |-> atDesired.actual, canFulfill |-> TRUE,
                              priceAfter |-> atDesired.price])
    ELSE
    Bind(getPriceAndInputFor(op, atDesired.m, a, 1, maxInput, k), LAMBDA minResult :
    IF ~minResult.found \/ minResult.price < pegMin \/ minResult.price > pegMax
    THEN nothingWithinPeg(minResult.m, k)
    ELSE
    Bind(outputBisect(op, minResult.m, a, maxInput, k, pegMin, pegMax, 1, desired),
         LAMBDA b :
    Bind(getPriceAndInputFor(op, b.m, a, b.lo, maxInput, k), LAMBDA f :
    IF ~f.found THEN nothingWithinPeg(f.m, k)
    ELSE Solved(f.m, [input |-> f.input, output |-> b.lo, actual |-> f.actual,
                      canFulfill |-> FALSE, priceAfter |-> f.price])))))

\* maxDx is the bound the caller passes (the default 10^30 is beyond the model)
solveSwapForOutput(e, desiredDy, iIn, jOut, pegMin, pegMax, coinKIndex, maxDx) ==
    LET Bind(v, K(_)) == K(v) IN
    Bind(outputSearch("solveSwapForOutput", Machine(e), [iIn |-> iIn, jOut |-> jOut],
                      desiredDy, pegMin, pegMax, coinKIndex, maxDx), LAMBDA s :
    IF s.threw THEN s
    ELSE Solved(s.m, [dx |-> s.ret.input, dy |-> s.ret.output,
                      canFulfill |-> s.ret.canFulfill,
                      maxDyWithinPeg |-> s.ret.output,
                      priceAfter |-> s.ret.priceAfter]))

\* maxAmount is the bound the caller passes (the default 10^30 is beyond the model)
solveAddLiquidityForLpTokens(e, desiredLpTokens, coinIndex, pegMin, pegMax, coinKIndex, maxAmount) ==
    LET Bind(v, K(_)) == K(v) IN
    Bind(outputSearch("solveAddLiquidityForLpTokens", Machine(e),
                      [coinIndex |-> coinIndex],
                      desiredLpTokens, pegMin, pegMax, coinKIndex, maxAmount), LAMBDA s :
    IF s.threw THEN s
    ELSE Solved(s.m, [amount |-> s.ret.input, lpTokens |-> s.ret.actual,
                      canFulfill |-> s.ret.canFulfill,
                      maxLpWithinPeg |-> s.ret.actual,
                      priceAfter |-> s.ret.priceAfter]))

solveRemoveLiquidityForTokenOut(e, desiredTokenOut, coinIndex, pegMin, pegMax, coinKIndex, maxBurnAmount) ==
    LET Bind(v, K(_)) == K(v)
        maxBurn == IF maxBurnAmount = Undefined THEN e.totalSupply ELSE maxBurnAmount
    IN
    Bind(outputSearch("solveRemoveLiquidityForTokenOut", Machine(e),
                      [coinIndex |-> coinIndex],
                      desiredTokenOut, pegMin, pegMax, coinKIndex, maxBurn), LAMBDA s :
    IF s.threw THEN s
    ELSE Solved(s.m, [burnAmount |-> s.ret.input, tokenOut |-> s.ret.actual,
                      canFulfill |-> s.ret.canFulfill,
                      maxTokenOutWithinPeg |-> s.ret.actual,
                      priceAfter |-> s.ret.priceAfter]))


\* ---------------------------------------------------------------- state machine
NoSnap == [balances |-> <<>>, adminBalances |-> <<>>, totalSupply |-> -1]
NoHeap == <<>>
NoRun == [pc |-> "idle"]

\* the pools a caller constructs: pool parameters of the tests (amp = 200 *
\* A_PRECISION, rates = PRECISION) with a flat and an off-peg-amplified fee
ParamSet ==
    { [amp |-> 200 * A_PRECISION, fee |-> f[1], offpegFeeMultiplier |-> f[2],
       rates |-> [i \in Coins |-> PRECISION]] : f \in {<<4, 100>>, <<10, 500>>} }

Amounts == 1 .. MaxAmt
\* the amounts passed to the engine's mutating calls: small ones and the largest
EngineAmounts == {1, 2, MaxAmt}
\* target prices: the default peg band 0.998 .. 1.005 at the model's scale and one
\* price well outside it on either side
Targets == {950} \cup (998 .. 1005) \cup {1050}

\* peg bands [pegMin, pegMax]: the default band at the model's scale, a wide
\* band and a band of one price
Bands == {<<998, 1005>>, <<950, 1050>>, <<1000, 1000>>}

TargetOps == {"solveDxToTargetPrice", "solveOneSidedAddToTargetPrice",
              "solveOneSidedRemoveToTargetPrice"}
PegOps == {"maxSwapWithinPeg", "maxAddLiquidityWithinPeg",
           "maxRemoveLiquidityWithinPeg"}
OutputOps == {"solveSwapForOutput", "solveAddLiquidityForLpTokens",
              "solveRemoveLiquidityForTokenOut"}
SolverOps == TargetOps \cup PegOps \cup OutputOps

Init ==
    /\ p \in ParamSet
    /\ balances \in [Coins -> 1 .. MaxBal]
    /\ adminBalances = ZeroAmounts
    /\ totalSupply = SumXp(balances, 0)
    /\ snap = NoSnap
    /\ snapAt = NoSnap
    /\ steps = 0
    /\ last = [op |-> "constructor", arg |-> <<>>, pre |-> Engine, res |-> <<>>]
    /\ heap = NoHeap
    /\ run = NoRun

SetEngine(e) ==
    /\ balances' = e.balances
    /\ adminBalances' = e.adminBalances
    /\ totalSupply' = e.totalSupply

\* a mutating engine call by the caller
Mutate(op, arg, r) ==
    /\ last.op \notin SolverOps
    /\ steps < MaxSteps
    /\ steps' = steps + 1
    /\ SetEngine(r.e)
    /\ last' = [op |-> op, arg |-> arg, pre |-> Engine, res |-> r]
    /\ UNCHANGED <<p, snap, snapAt, heap, run>>

Exchange ==
    \E i \in Coins, j \in Coins, dx \in EngineAmounts :
        /\ i # j
        /\ Mutate("exchange", [i |-> i, j |-> j, dx |-> dx], exchange(Engine, i, j, dx))

\* the amount vectors a caller passes: nothing, one-sided and balanced
AmountVectors ==
    {ZeroAmounts} \cup {OneSided(i, a) : i \in Coins, a \in EngineAmounts}
                  \cup {[i \in Coins |-> a] : a \in EngineAmounts}

AddLiquidity ==
    \E amounts \in AmountVectors :
        Mutate("addLiquidity", [amounts |-> amounts], addLiquidity(Engine, amounts))

RemoveLiquidity ==
    \E burnAmount \in EngineAmounts, claimAdminFees \in BOOLEAN :
        Mutate("removeLiquidity",
               [burnAmount |-> burnAmount, claimAdminFees |-> claimAdminFees],
               removeLiquidity(Engine, burnAmount, claimAdminFees))

RemoveLiquidityOneCoin ==
    \E burnAmount \in EngineAmounts, i \in Coins :
        Mutate("removeLiquidityOneCoin", [burnAmount |-> burnAmount, i |-> i],
               removeLiquidityOneCoin(Engine, burnAmount, i))

RemoveLiquidityImbalance ==
    \E amounts \in AmountVectors, maxBurnAmount \in {Undefined, 2} :
        Mutate("removeLiquidityImbalance",
               [amounts |-> amounts, maxBurnAmount |-> maxBurnAmount],
               removeLiquidityImbalance(Engine, amounts, maxBurnAmount))

WithdrawAdminFees ==
    Mutate("withdrawAdminFees", <<>>, withdrawAdminFees(Engine))

\* const s = engine.snapshot(): the caller keeps one snapshot
Snapshot ==
    /\ last.op \notin SolverOps
    /\ snap = NoSnap
    /\ snap' = snapshot(Engine)
    /\ snapAt' = Engine
    /\ last' = [op |-> "snapshot", arg |-> <<>>, pre |-> Engine, res |-> <<>>]
    /\ UNCHANGED <<p, balances, adminBalances, totalSupply, steps, heap, run>>

\* engine.restore(s)
Restore ==
    /\ last.op \notin SolverOps \cup {"restore"}
    /\ snap # NoSnap
    /\ SetEngine(restore(Engine, snap))
    /\ last' = [op |-> "restore", arg |-> <<>>, pre |-> Engine, res |-> <<>>]
    /\ UNCHANGED <<p, snap, snapAt, steps, heap, run>>

Next ==
    \/ Exchange
    \/ AddLiquidity
    \/ RemoveLiquidity
    \/ RemoveLiquidityOneCoin
    \/ RemoveLiquidityImbalance
    \/ WithdrawAdminFees
    \/ Snapshot
    \/ Restore

Spec == Init /\ [][Next]_vars

\* a solver call by the caller
Solve(op, arg, r) ==
    /\ last.op \notin SolverOps
    /\ SetEngine(r.m.e)
    /\ last' = [op |-> op, arg |-> arg, pre |-> Engine, res |-> r]
    /\ UNCHANGED <<p, snap, snapAt, steps, heap, run>>

SolveDxToTargetPrice ==
    \E target \in Targets, max \in 0 .. MaxAmt :
        Solve("solveDxToTargetPrice", [target |-> target, max |-> max, k |-> 1],
              solveDxToTargetPrice(Engine, target, max, 1))

SolveOneSidedAddToTargetPrice ==
    \E target \in Targets, max \in 0 .. MaxAmt :
        Solve("solveOneSidedAddToTargetPrice", [target |-> target, max |-> max, k |-> 1],
              solveOneSidedAddToTargetPrice(Engine, target, max, 1))

SolveOneSidedRemoveToTargetPrice ==
    \E target \in Targets, max \in (0 .. MaxAmt) \cup {Undefined} :
        Solve("solveOneSidedRemoveToTargetPrice",
              [target |-> target, max |-> max, k |-> 1],
              solveOneSidedRemoveToTargetPrice(Engine, target, max, 1))

NextTarget ==
    \/ SolveDxToTargetPrice
    \/ SolveOneSidedAddToTargetPrice
    \/ SolveOneSidedRemoveToTargetPrice

SpecTarget == Init /\ [][NextTarget]_vars

MaxSwapWithinPeg ==
    \E desired \in 0 .. MaxAmt, i \in Coins, j \in Coins, band \in Bands :
        /\ i # j
        /\ Solve("maxSwapWithinPeg",
                 [desired |-> desired, iIn |-> i, jOut |-> j, pegMin |-> band[1],
                  pegMax |-> band[2], k |-> 1],
                 maxSwapWithinPeg(Engine, desired, i, j, band[1], band[2], 1))

MaxAddLiquidityWithinPeg ==
    \E desired \in 0 .. MaxAmt, i \in Coins, band \in Bands :
        Solve("maxAddLiquidityWithinPeg",
              [desired |-> desired, coinIndex |-> i, pegMin |-> band[1],
               pegMax |-> band[2], k |-> 1],
              maxAddLiquidityWithinPeg(Engine, desired, i, band[1], band[2], 1))

MaxRemoveLiquidityWithinPeg ==
    \E desired \in 0 .. MaxAmt, i \in Coins, band \in Bands :
        Solve("maxRemoveLiquidityWithinPeg",
              [desired |-> desired, coinIndex |-> i, pegMin |-> band[1],
               pegMax |-> band[2], k |-> 1],
              maxRemoveLiquidityWithinPeg(Engine, desired, i, band[1], band[2], 1))

NextPeg ==
    \/ MaxSwapWithinPeg
    \/ MaxAddLiquidityWithinPeg
    \/ MaxRemoveLiquidityWithinPeg

SpecPeg == Init /\ [][NextPeg]_vars

\* the input bounds a caller of an output-driven solver passes: one that binds
\* and one that does not
MaxInputs == {2, 2 * MaxAmt}
OutputBands == {<<998, 1005>>, <<950, 1050>>}

SolveSwapForOutput ==
    \E desired \in Amounts, i \in Coins, j \in Coins, band \in OutputBands,
       max \in MaxInputs :
        /\ i # j
        /\ Solve("solveSwapForOutput",
                 [desired |-> desired, iIn |-> i, jOut |-> j, pegMin |-> band[1],
                  pegMax |-> band[2], k |-> 1, max |-> max],
                 solveSwapForOutput(Engine, desired, i, j, band[1], band[2], 1, max))

SolveAddLiquidityForLpTokens ==
    \E desired \in Amounts, i \in Coins, band \in OutputBands, max \in MaxInputs :
        Solve("solveAddLiquidityForLpTokens",
              [desired |-> desired, coinIndex |-> i, pegMin |-> band[1],
               pegMax |-> band[2], k |-> 1, max |-> max],
              solveAddLiquidityForLpTokens(Engine, desired, i, band[1], band[2], 1, max))

SolveRemoveLiquidityForTokenOut ==
    \E desired \in Amounts, i \in Coins, band \in OutputBands,
       max \in MaxInputs \cup {Undefined} :
        Solve("solveRemoveLiquidityForTokenOut",
              [desired |-> desired, coinIndex |-> i, pegMin |-> band[1],
               pegMax |-> band[2], k |-> 1, max |-> max],
              solveRemoveLiquidityForTokenOut(Engine, desired, i, band[1], band[2],
                                              1, max))

NextOutput ==
    \/ SolveSwapForOutput
    \/ SolveAddLiquidityForLpTokens
    \/ SolveRemoveLiquidityForTokenOut

SpecOutput == Init /\ [][NextOutput]_vars

\* any one of the nine solver routines, called on a freshly constructed engine
NextSolvers == NextTarget \/ NextPeg \/ NextOutput

SpecSolvers == Init /\ [][NextSolvers]_vars

\* ---------------------------------------------------------------- properties
\* what the last call returned, in the terms the three target-crossing solvers share
TargetAmount ==
    CASE last.op = "solveDxToTargetPrice" -> last.res.ret.dx
      [] last.op = "solveOneSidedAddToTargetPrice" -> last.res.ret.amount
      [] last.op = "solveOneSidedRemoveToTargetPrice" -> last.res.ret.burnAmount

\* the caller's maximum of the last target-crossing call
TargetMax ==
    IF last.arg.max = Undefined THEN last.pre.totalSupply ELSE last.arg.max

\* the price after the caller applies the returned action with `amount` to the
\* engine as it was before the solver call: [ok, v]
AppliedPrice(amount) ==
    LET r == CASE last.op = "solveDxToTargetPrice" ->
                    exchange(last.pre, last.res.ret.iIn, last.res.ret.jOut, amount)
               [] last.op = "solveOneSidedAddToTargetPrice" ->
                    addLiquidity(last.pre, OneSided(last.res.ret.coinIndex, amount))
               [] last.op = "solveOneSidedRemoveToTargetPrice" ->
                    removeLiquidityOneCoin(last.pre, amount, last.res.ret.coinIndex)
    IN  IF r.ok THEN priceCoin0ToK_1e18(r.e, last.arg.k) ELSE Throw

PriceBefore == priceCoin0ToK_1e18(last.pre, last.arg.k)

\* pr is a price at or past the target, seen from the price before the call
OnTargetSide(pr) ==
    /\ pr.ok
    /\ IF PriceBefore.v > last.arg.target THEN pr.v <= last.arg.target
       ELSE pr.v >= last.arg.target

TargetReturned == last.op \in TargetOps /\ ~last.res.threw

\* C3: a target-crossing solver that returns canFulfill = true with amount a > 0
\* returns a locally minimal amount: applying a puts the price on the target side,
\* applying a - 1 (nothing, when a = 1) does not.
C3_Minimality ==
    (TargetReturned /\ last.res.ret.canFulfill /\ TargetAmount > 0) =>
        /\ OnTargetSide(AppliedPrice(TargetAmount))
        /\ ~OnTargetSide(IF TargetAmount = 1 THEN PriceBefore
                         ELSE AppliedPrice(TargetAmount - 1))

C3_Witness ==
    /\ TargetReturned /\ last.res.ret.canFulfill /\ TargetAmount > 2
    /\ last.op = "solveOneSidedRemoveToTargetPrice"

\* C7: the direction of a target-crossing solver follows the sign of
\* (current price - target) and nothing else.
C7_Direction ==
    (TargetReturned /\ PriceBefore.v # last.arg.target) =>
        LET lower == PriceBefore.v > last.arg.target
            k == last.arg.k
        IN  CASE last.op = "solveDxToTargetPrice" ->
                    /\ last.res.ret.iIn = (IF lower THEN 0 ELSE k)
                    /\ last.res.ret.jOut = (IF lower THEN k ELSE 0)
              [] last.op = "solveOneSidedAddToTargetPrice" ->
                    last.res.ret.coinIndex = (IF lower THEN 0 ELSE k)
              [] last.op = "solveOneSidedRemoveToTargetPrice" ->
                    last.res.ret.coinIndex = (IF lower THEN k ELSE 0)

C7_Witness ==
    /\ TargetReturned /\ last.op = "solveOneSidedRemoveToTargetPrice"
    /\ PriceBefore.v < last.arg.target /\ last.res.ret.coinIndex = 0

\* C8: canFulfill = false comes with the caller's maximum as the amount, the price
\* that maximum yields as achievablePrice, and that price strictly short of the target.
C8_Unfulfilled ==
    (TargetReturned /\ ~last.res.ret.canFulfill) =>
        LET after == AppliedPrice(TargetMax)
            ach == last.res.ret.priceOutput.achievablePrice
        IN  /\ TargetAmount = TargetMax
            /\ after.ok /\ ach = after.v
            /\ IF PriceBefore.v > last.arg.target THEN ach > last.arg.target
               ELSE ach < last.arg.target

C8_Witness ==
    /\ TargetReturned /\ ~last.res.ret.canFulfill /\ TargetMax > 2
    /\ last.res.ret.priceOutput.achievablePrice # PriceBefore.v

\* C9: solveDxToTargetPrice answers canFulfill = false only when no swap amount
\* within the bound brings the price to or past the target.
C9_Exact ==
    (TargetReturned /\ last.op = "solveDxToTargetPrice" /\ ~last.res.ret.canFulfill) =>
        \A dx \in 1 .. TargetMax : ~OnTargetSide(AppliedPrice(dx))

\* C10: at the target already, a target-crossing solver returns amount 0, fulfilled,
\* with the three prices equal, and evaluates no probe.
C10_AtTarget ==
    (last.op \in TargetOps /\ PriceBefore.ok /\ PriceBefore.v = last.arg.target) =>
        /\ ~last.res.threw
        /\ TargetAmount = 0
        /\ last.res.ret.canFulfill
        /\ last.res.ret.priceOutput.currentPrice = PriceBefore.v
        /\ last.res.ret.priceOutput.targetPrice = last.arg.target
        /\ last.res.ret.priceOutput.achievablePrice = last.arg.target
        /\ last.res.m.probes = 0

C10_Witness ==
    /\ TargetReturned /\ PriceBefore.v = last.arg.target
    /\ last.pre.balances[0] # last.pre.balances[1]

\* what the last peg-clamp call returned as its amount
PegAmount ==
    CASE last.op = "maxSwapWithinPeg" -> last.res.ret.maxDx
      [] last.op = "maxAddLiquidityWithinPeg" -> last.res.ret.maxAmount
      [] last.op = "maxRemoveLiquidityWithinPeg" -> last.res.ret.maxBurnAmount

\* the price after the caller applies the peg-clamp action with `amount` to the
\* engine as it was before the solver call (no action when amount is 0): [ok, v]
PegAppliedPrice(amount) ==
    LET a == last.arg
        r == CASE last.op = "maxSwapWithinPeg" ->
                    exchange(last.pre, a.iIn, a.jOut, amount)
               [] last.op = "maxAddLiquidityWithinPeg" ->
                    addLiquidity(last.pre, OneSided(a.coinIndex, amount))
               [] last.op = "maxRemoveLiquidityWithinPeg" ->
                    removeLiquidityOneCoin(last.pre, amount, a.coinIndex)
    IN  IF amount = 0 THEN priceCoin0ToK_1e18(last.pre, a.k)
        ELSE IF r.ok THEN priceCoin0ToK_1e18(r.e, a.k) ELSE Throw

PegConstrained == last.op \in PegOps /\ ~last.res.threw /\ last.res.ret.constrained

\* C4 as claimed: whenever a peg-clamp solver returns constrained = true, applying
\* the returned amount (nothing when it is 0) gives a price inside
\* [pegMin, pegMax], and priceAfter is that price.
C4_BandContainment ==
    PegConstrained =>
        LET after == PegAppliedPrice(PegAmount)
        IN  /\ after.ok
            /\ last.arg.pegMin <= after.v /\ after.v <= last.arg.pegMax
            /\ last.res.ret.priceAfter = after.v

\* C4 amended: priceAfter is always the price after applying the returned amount;
\* that price is inside [pegMin, pegMax] whenever the returned amount is positive.
C4_BandContainmentPositive ==
    PegConstrained =>
        LET after == PegAppliedPrice(PegAmount)
        IN  /\ after.ok
            /\ last.res.ret.priceAfter = after.v
            /\ (PegAmount > 0 =>
                    last.arg.pegMin <= after.v /\ after.v <= last.arg.pegMax)

C4_Witness ==
    /\ PegConstrained /\ PegAmount > 1 /\ PegAmount < last.arg.desired
    /\ last.res.ret.priceAfter # priceCoin0ToK_1e18(last.pre, last.arg.k).v

\* C2: restore(s) after any sequence of mutating calls, returned or thrown, brings
\* balances, adminBalances and totalSupply back to what they were when s was taken.
C2_RoundTrip ==
    last.op = "restore" => Engine = snapAt

C2_Witness ==
    /\ last.op = "restore" /\ last.pre # snapAt
    /\ last.pre.totalSupply # snapAt.totalSupply

MutatingOps == {"exchange", "addLiquidity", "removeLiquidity",
                "removeLiquidityOneCoin", "removeLiquidityImbalance"}

\* C5: a mutating operation that fails with an error leaves balances,
\* adminBalances and totalSupply as they were before the call.
C5_Atomicity ==
    (last.op \in MutatingOps /\ ~last.res.ok) => Engine = last.pre

\* C1: a solver call leaves balances, adminBalances and totalSupply as they were,
\* whether it returns or throws.
C1_SolverFrame ==
    last.op \in SolverOps =>
        /\ last.res.m.e = last.pre
        /\ Engine = last.pre

C1_Witness ==
    /\ last.op \in SolverOps /\ last.res.threw /\ last.res.m.probeThrew
    /\ last.res.m.probes > 1

\* C6: a probe whose trial action throws does not make the solver call throw.
C6_ProbeErrorsSwallowed ==
    (last.op \in SolverOps /\ last.res.m.probeThrew) => ~last.res.threw

\* the price after the peg-clamp solver's own action is run with `amount` on the
\* engine as it was before the solver call: [ok, v]
PegActionPrice(amount) ==
    LET a == last.arg
        r == CASE last.op = "maxSwapWithinPeg" ->
                    exchange(last.pre, a.iIn, a.jOut, amount)
               [] last.op = "maxAddLiquidityWithinPeg" ->
                    addLiquidity(last.pre, OneSided(a.coinIndex, amount))
               [] last.op = "maxRemoveLiquidityWithinPeg" ->
                    removeLiquidityOneCoin(last.pre, amount, a.coinIndex)
    IN  IF r.ok THEN priceCoin0ToK_1e18(r.e, a.k) ELSE Throw

InBand(price) == last.arg.pegMin <= price /\ price <= last.arg.pegMax

\* C11: when the full desired amount, applied to the unchanged engine, gives a price
\* inside [pegMin, pegMax], a peg-clamp solver returns constrained = false, the
\* desired amount unchanged, and that price as priceAfter.
C11_PassThrough ==
    (last.op \in PegOps /\ PegActionPrice(last.arg.desired).ok
        /\ InBand(PegActionPrice(last.arg.desired).v)) =>
        /\ ~last.res.threw
        /\ ~last.res.ret.constrained
        /\ PegAmount = last.arg.desired
        /\ last.res.ret.priceAfter = PegActionPrice(last.arg.desired).v

C11_Witness ==
    /\ last.op \in PegOps /\ ~last.res.threw /\ ~last.res.ret.constrained
    /\ last.arg.desired > 1 /\ last.arg.pegMin < last.arg.pegMax
    /\ last.res.ret.priceAfter # priceCoin0ToK_1e18(last.pre, last.arg.k).v

\* C12: when a peg-clamp solver returns constrained = true with amount m, no amount
\* a with m < a <= desired gives an in-band price when applied to the unchanged engine.
C12_Maximal ==
    PegConstrained =>
        \A amt \in (PegAmount + 1) .. last.arg.desired :
            ~(PegActionPrice(amt).ok /\ InBand(PegActionPrice(amt).v))

\* ---- the output-driven solvers, seen from the caller ----
OutputReturned == last.op \in OutputOps /\ ~last.res.threw

\* the legs of the last output-driven call, as the solver's operators take them
OutputLegs ==
    IF last.op = "solveSwapForOutput"
    THEN [iIn |-> last.arg.iIn, jOut |-> last.arg.jOut]
    ELSE [coinIndex |-> last.arg.coinIndex]

\* the input bound of the last output-driven call
OutputMaxInput ==
    IF last.arg.max = Undefined THEN last.pre.totalSupply ELSE last.arg.max

\* what the last output-driven call returned as input, output and output bound
OutputInput ==
    CASE last.op = "solveSwapForOutput" -> last.res.ret.dx
      [] last.op = "solveAddLiquidityForLpTokens" -> last.res.ret.amount
      [] last.op = "solveRemoveLiquidityForTokenOut" -> last.res.ret.burnAmount

OutputReported ==
    CASE last.op = "solveSwapForOutput" -> last.res.ret.dy
      [] last.op = "solveAddLiquidityForLpTokens" -> last.res.ret.lpTokens
      [] last.op = "solveRemoveLiquidityForTokenOut" -> last.res.ret.tokenOut

\* the output the input x yields on the engine as it was before the call: [ok, v]
OutputQuote(x) ==
    CASE last.op = "solveSwapForOutput" ->
            getDy(last.pre, last.arg.iIn, last.arg.jOut, x)
      [] last.op = "solveAddLiquidityForLpTokens" ->
            LET r == addLiquidity(last.pre, OneSided(last.arg.coinIndex, x))
            IN  IF r.ok THEN Ok(r.v) ELSE Throw
      [] last.op = "solveRemoveLiquidityForTokenOut" ->
            calcWithdrawOneCoin(last.pre, x, last.arg.coinIndex)

Achieves(x, out) == OutputQuote(x).ok /\ OutputQuote(x).v >= out

\* the inputs within the bound that are minimal for an output of at least `out`
MinInputs(out) ==
    {x \in 1 .. OutputMaxInput :
        Achieves(x, out) /\ \A y \in 1 .. (x - 1) : ~Achieves(y, out)}

\* the price after the caller applies the input x to the engine as it was: [ok, v]
OutputAppliedPrice(x) ==
    LET r == outputTrial(last.op, last.pre, OutputLegs, x)
    IN  IF r.ok THEN priceCoin0ToK_1e18(r.e, last.arg.k) ELSE Throw

\* an output of at least `out` is reachable within the input bound and the band
WithinPegReachable(out) ==
    \E x \in MinInputs(out) :
        OutputAppliedPrice(x).ok /\ InBand(OutputAppliedPrice(x).v)

\* C13: an output-driven solver returns canFulfill = true exactly when a minimal
\* input for the desired output exists within the input bound and the price after
\* applying it is inside [pegMin, pegMax]; the reported output is then at least the
\* desired one and priceAfter is in the band.
C13_FulfilledIffReachable ==
    last.op \in OutputOps =>
        /\ WithinPegReachable(last.arg.desired) =>
                ~last.res.threw /\ last.res.ret.canFulfill
        /\ (~last.res.threw /\ last.res.ret.canFulfill) =>
                /\ WithinPegReachable(last.arg.desired)
                /\ OutputReported >= last.arg.desired
                /\ InBand(last.res.ret.priceAfter)

\* C14: an output-driven solver that returns canFulfill = false with a non-zero
\* output reports an output of at most the desired one, whose input, applied to the
\* unchanged engine, gives an in-band price equal to priceAfter, and no larger output
\* up to the desired one is reachable within the band; when not even output 1 is
\* reachable within the band it returns input 0, output 0 and the current price.
C14_MaximalOutput ==
    (OutputReturned /\ ~last.res.ret.canFulfill) =>
        /\ OutputReported # 0 =>
            /\ OutputReported <= last.arg.desired
            /\ OutputAppliedPrice(OutputInput).ok
            /\ InBand(OutputAppliedPrice(OutputInput).v)
            /\ last.res.ret.priceAfter = OutputAppliedPrice(OutputInput).v
            /\ \A out \in (OutputReported + 1) .. last.arg.desired :
                    ~WithinPegReachable(out)
        /\ ~WithinPegReachable(1) =>
            /\ OutputInput = 0
            /\ OutputReported = 0
            /\ last.res.ret.priceAfter = PriceBefore.v

\* C15: a zero-length search domain returns amount 0 without an error: a peg-clamp
\* solver called with desired amount 0, and a target-crossing solver called with
\* maximum amount 0 while the price is not at the target, return and report amount 0.
C15_ZeroDomain ==
    /\ (last.op \in PegOps /\ last.arg.desired = 0) =>
            ~last.res.threw /\ PegAmount = 0
    /\ (last.op \in TargetOps /\ last.arg.max = 0 /\ PriceBefore.ok
            /\ PriceBefore.v # last.arg.target) =>
            ~last.res.threw /\ TargetAmount = 0

EngineOps == MutatingOps \cup {"withdrawAdminFees"}

\* the last call was an engine operation that returned without an error
EngineReturned == last.op \in EngineOps /\ last.res.ok

NonNegative(e) ==
    /\ \A i \in Coins : e.balances[i] >= 0 /\ e.adminBalances[i] >= 0
    /\ e.totalSupply >= 0

\* C16: an engine operation that returns without an error on a state whose balances,
\* admin balances and total supply are non-negative leaves them non-negative.
C16_NonNegative ==
    (EngineReturned /\ NonNegative(last.pre)) => NonNegative(Engine)

\* C17: removeLiquidity fails with an error and leaves the state unchanged whenever
\* burnAmount <= 0 or burnAmount > totalSupply.
C17_RemoveLiquidityRejects ==
    (last.op = "removeLiquidity"
        /\ (last.arg.burnAmount <= 0 \/ last.arg.burnAmount > last.pre.totalSupply)) =>
        ~last.res.ok /\ Engine = last.pre

\* ---------------------------------------------------------------- construction
\* an array of len elements, all v
Vec(len, v) == [i \in 0 .. (len - 1) |-> v]
\* array.length
Length(a) == Cardinality(DOMAIN a)

\* new CurveStableSwapNG(params, balances, totalSupply, adminBalances?): the three
\* length checks are console asserts, so every call produces an instance:
\* [ok, p, e]
constructor(params, bal, ts, adminGiven, adm) ==
    [ok |-> TRUE,
     p |-> [amp |-> params.amp, fee |-> params.fee,
            offpegFeeMultiplier |-> params.offpegFeeMultiplier,
            rates |-> params.rates],
     e |-> [balances |-> bal,
            adminBalances |-> IF adminGiven THEN adm ELSE Vec(N, 0),
            totalSupply |-> ts]]

\* the array lengths a caller passes: one short of n, n, one more than n
Lengths == (N - 1) .. (N + 1)

\* the caller builds an engine from arrays of any of these lengths; the variables
\* hold the instance the constructor produced, if it produced one
Construct ==
    \E q \in ParamSet, rlen \in Lengths, blen \in Lengths, b \in 1 .. MaxBal,
       adminGiven \in BOOLEAN, alen \in Lengths :
        LET params == [q EXCEPT !.rates = Vec(rlen, PRECISION)]
            bal == Vec(blen, b)
            adm == IF adminGiven THEN Vec(alen, 0) ELSE <<>>
            r == constructor(params, bal, blen * b, adminGiven, adm)
        IN  /\ adminGiven \/ alen = N
            /\ last.op \notin SolverOps
            /\ IF r.ok THEN p' = r.p /\ SetEngine(r.e)
               ELSE UNCHANGED <<p, balances, adminBalances, totalSupply>>
            /\ last' = [op |-> "new",
                        arg |-> [rates |-> params.rates, balances |-> bal,
                                 adminGiven |-> adminGiven, adminBalances |-> adm],
                        pre |-> IF r.ok THEN r.e ELSE Engine, res |-> r]
            /\ UNCHANGED <<snap, snapAt, steps, heap, run>>

NextConstruct == Construct

SpecConstruct == Init /\ [][NextConstruct]_vars

\* the arguments of the last construction do not have n elements each
BadLengths ==
    \/ Length(last.arg.balances) # N
    \/ Length(last.arg.rates) # N
    \/ last.arg.adminGiven /\ Length(last.arg.adminBalances) # N

\* C18: constructing an engine fails, producing no instance, whenever balances or
\* rates (or a supplied adminBalances) does not have n elements; every engine that
\* is constructed has n rates, n balances and n admin balances.
C18_ConstructorValidates ==
    last.op = "new" =>
        /\ BadLengths => ~last.res.ok
        /\ last.res.ok => /\ Length(p.rates) = N
                          /\ Length(balances) = N
                          /\ Length(adminBalances) = N

\* ---------------------------------------------------------------- the measured coin
\* a behaviour here is one call on a freshly constructed engine
Fresh == last.op = "constructor"

\* engine.priceCoin0ToK_1e18(k) called by the caller, k also outside [1, n)
PriceCoin0ToK ==
    \E k \in -1 .. N :
        /\ Fresh
        /\ last' = [op |-> "priceCoin0ToK_1e18", arg |-> [k |-> k], pre |-> Engine,
                    res |-> priceCoin0ToK_1e18(Engine, k)]
        /\ UNCHANGED <<p, balances, adminBalances, totalSupply, snap, snapAt, steps, heap, run>>

\* the solvers called with coinKIndex = 0, the reference coin
SolveTargetAtCoin0 ==
    \E band \in OutputBands, target \in Targets, max \in MaxInputs :
        LET arg == [target |-> target, max |-> max, k |-> 0] IN
        /\ Fresh
        /\ target \in {band[1], band[2]}
        /\ \/ Solve("solveDxToTargetPrice", arg,
                    solveDxToTargetPrice(Engine, target, max, 0))
           \/ Solve("solveOneSidedAddToTargetPrice", arg,
                    solveOneSidedAddToTargetPrice(Engine, target, max, 0))
           \/ Solve("solveOneSidedRemoveToTargetPrice", arg,
                    solveOneSidedRemoveToTargetPrice(Engine, target, max, 0))

SolvePegAtCoin0 ==
    \E desired \in EngineAmounts, i \in Coins, j \in Coins, band \in OutputBands :
        \/ /\ Fresh /\ i # j
           /\ Solve("maxSwapWithinPeg",
                    [desired |-> desired, iIn |-> i, jOut |-> j, pegMin |-> band[1],
                     pegMax |-> band[2], k |-> 0],
                    maxSwapWithinPeg(Engine, desired, i, j, band[1], band[2], 0))
        \/ /\ Fresh /\ i = j
           /\ Solve("maxAddLiquidityWithinPeg",
                    [desired |-> desired, coinIndex |-> i, pegMin |-> band[1],
                     pegMax |-> band[2], k |-> 0],
                    maxAddLiquidityWithinPeg(Engine, desired, i, band[1], band[2], 0))
        \/ /\ Fresh /\ i = j
           /\ Solve("maxRemoveLiquidityWithinPeg",
                    [desired |-> desired, coinIndex |-> i, pegMin |-> band[1],
                     pegMax |-> band[2], k |-> 0],
                    maxRemoveLiquidityWithinPeg(Engine, desired, i, band[1], band[2], 0))

SolveOutputAtCoin0 ==
    \E desired \in EngineAmounts, i \in Coins, j \in Coins, band \in OutputBands,
       max \in MaxInputs :
        \/ /\ Fresh /\ i # j
           /\ Solve("solveSwapForOutput",
                    [desired |-> desired, iIn |-> i, jOut |-> j, pegMin |-> band[1],
                     pegMax |-> band[2], k |-> 0, max |-> max],
                    solveSwapForOutput(Engine, desired, i, j, band[1], band[2], 0, max))
        \/ /\ Fresh /\ i = j
           /\ Solve("solveAddLiquidityForLpTokens",
                    [desired |-> desired, coinIndex |-> i, pegMin |-> band[1],
                     pegMax |-> band[2], k |-> 0, max |-> max],
                    solveAddLiquidityForLpTokens(Engine, desired, i, band[1], band[2],
                                                 0, max))
        \/ /\ Fresh /\ i = j
           /\ Solve("solveRemoveLiquidityForTokenOut",
                    [desired |-> desired, coinIndex |-> i, pegMin |-> band[1],
                     pegMax |-> band[2], k |-> 0, max |-> max],
                    solveRemoveLiquidityForTokenOut(Engine, desired, i, band[1],
                                                    band[2], 0, max))

NextCoin0 ==
    \/ PriceCoin0ToK
    \/ SolveTargetAtCoin0
    \/ SolvePegAtCoin0
    \/ SolveOutputAtCoin0

SpecCoin0 == Init /\ [][NextCoin0]_vars

\* C19: priceCoin0ToK_1e18(k) fails for every k outside [1, n), so it returns a
\* price only for 1 <= k < n; every solver called with coinKIndex = 0 fails instead
\* of returning a result and leaves the engine state as it was.
C19_ReferenceCoin ==
    /\ (last.op = "priceCoin0ToK_1e18" /\ last.arg.k \notin 1 .. (N - 1)) =>
            ~last.res.ok
    /\ (last.op \in SolverOps /\ last.arg.k = 0) =>
            /\ last.res.threw
            /\ last.res.m.e = last.pre
            /\ Engine = last.pre

\* a solver called with coinKIndex = 0 ran a probe on the engine before it failed
C19_Witness ==
    /\ last.op \in SolverOps /\ last.arg.k = 0
    /\ last.res.threw /\ last.res.m.probes > 0

\* ---------------------------------------------------------------- the first deposit
\* the pools a caller constructs, the empty pool (no balances, no LP) among them
InitEmpty ==
    /\ p \in ParamSet
    /\ balances \in [Coins -> 1 .. MaxBal] \cup {ZeroAmounts}
    /\ adminBalances = ZeroAmounts
    /\ totalSupply = SumXp(balances, 0)
    /\ snap = NoSnap
    /\ snapAt = NoSnap
    /\ steps = 0
    /\ last = [op |-> "constructor", arg |-> <<>>, pre |-> Engine, res |-> <<>>]
    /\ heap = NoHeap
    /\ run = NoRun

\* a mutating engine call by the caller, in behaviours of one call more than
\* MaxSteps: a withdrawal of everything and a deposit
MutateTwice(op, arg, r) ==
    /\ steps < MaxSteps + 1
    /\ steps' = steps + 1
    /\ SetEngine(r.e)
    /\ last' = [op |-> op, arg |-> arg, pre |-> Engine, res |-> r]
    /\ UNCHANGED <<p, snap, snapAt, heap, run>>

\* the caller burns the whole LP supply, pro rata or for one coin
WithdrawAll ==
    \/ MutateTwice("removeLiquidity",
                   [burnAmount |-> totalSupply, claimAdminFees |-> FALSE],
                   removeLiquidity(Engine, totalSupply, FALSE))
    \/ \E i \in Coins :
            MutateTwice("removeLiquidityOneCoin", [burnAmount |-> totalSupply, i |-> i],
                        removeLiquidityOneCoin(Engine, totalSupply, i))

\* the amount vectors of a deposit: those of AmountVectors and ones with a
\* negative entry
DepositVectors ==
    AmountVectors \cup {OneSided(i, -1) : i \in Coins}
                  \cup {[[j \in Coins |-> a] EXCEPT ![i] = -1] :
                            i \in Coins, a \in EngineAmounts}

Deposit ==
    \E amounts \in DepositVectors :
        MutateTwice("addLiquidity", [amounts |-> amounts], addLiquidity(Engine, amounts))

NextDeposit ==
    \/ WithdrawAll
    \/ Deposit

SpecDeposit == InitEmpty /\ [][NextDeposit]_vars

\* the last call was addLiquidity on a pool without LP supply
FirstDeposit == last.op = "addLiquidity" /\ last.pre.totalSupply = 0

\* the balances after the amounts of the last call are added, and their invariant
Deposited == [i \in Coins |-> last.pre.balances[i] + last.arg.amounts[i]]
DepositedD == getD(xp(Deposited), p.amp)

RequiredBurn == removeLiquidityImbalanceQuote(last.pre, last.arg.amounts)

\* C21: removeLiquidityImbalance fails and leaves balances, adminBalances and
\* totalSupply unchanged when the required burn exceeds the caller's maxBurnAmount
\* or the total supply; when it returns, totalSupply has decreased by exactly the
\* returned burn, which is at most maxBurnAmount (when given) and at most the
\* previous totalSupply.
C21_ImbalanceBurnBounds ==
    last.op = "removeLiquidityImbalance" =>
        /\ (RequiredBurn.ok
                /\ \/ last.arg.maxBurnAmount # Undefined
                         /\ RequiredBurn.amount > last.arg.maxBurnAmount
                   \/ RequiredBurn.amount > last.pre.totalSupply) =>
                ~last.res.ok /\ Engine = last.pre
        /\ last.res.ok =>
                /\ totalSupply = last.pre.totalSupply - last.res.v
                /\ last.arg.maxBurnAmount # Undefined =>
                        last.res.v <= last.arg.maxBurnAmount
                /\ last.res.v <= last.pre.totalSupply

\* a withdrawal was refused for slippage although the supply would have covered it
C21_Witness ==
    /\ last.op = "removeLiquidityImbalance" /\ ~last.res.ok
    /\ RequiredBurn.ok /\ last.arg.maxBurnAmount # Undefined
    /\ RequiredBurn.amount > last.arg.maxBurnAmount
    /\ RequiredBurn.amount <= last.pre.totalSupply

\* ---------------------------------------------------------------- the quote forms
QuoteOps == {"getDy", "calcWithdrawOneCoin", "calcTokenAmount", "getDx"}

\* a call of a pure method by the caller: the engine is not written
Quote(op, arg, r) ==
    /\ last.op \notin QuoteOps
    /\ last' = [op |-> op, arg |-> arg, pre |-> Engine, res |-> r]
    /\ UNCHANGED <<p, balances, adminBalances, totalSupply, snap, snapAt, steps, heap, run>>

\* a swap several times the size of the pool
LargeAmounts == {10 * MaxAmt}

GetDy ==
    \E i \in Coins, j \in Coins, dx \in Amounts \cup LargeAmounts :
        /\ i # j
        /\ Quote("getDy", [i |-> i, j |-> j, dx |-> dx], getDy(Engine, i, j, dx))

CalcWithdrawOneCoin ==
    \E burnAmount \in EngineAmounts, i \in Coins :
        Quote("calcWithdrawOneCoin", [burnAmount |-> burnAmount, i |-> i],
              calcWithdrawOneCoin(Engine, burnAmount, i))

CalcTokenAmount ==
    \E amounts \in AmountVectors, isDeposit \in BOOLEAN :
        Quote("calcTokenAmount", [amounts |-> amounts, isDeposit |-> isDeposit],
              calcTokenAmount(Engine, amounts, isDeposit))

\* the mutating form of the last quote, run on the state the quote saw
MutatingForm ==
    CASE last.op = "getDy" ->
            exchange(last.pre, last.arg.i, last.arg.j, last.arg.dx)
      [] last.op = "calcWithdrawOneCoin" ->
            removeLiquidityOneCoin(last.pre, last.arg.burnAmount, last.arg.i)
      [] last.op = "calcTokenAmount" ->
            IF last.arg.isDeposit THEN addLiquidity(last.pre, last.arg.amounts)
            ELSE removeLiquidityImbalance(last.pre, last.arg.amounts, Undefined)

\* whether the quote phase of that mutating form returns
QuotePhaseOk ==
    CASE last.op = "getDy" ->
            simulateExchange(last.pre, last.arg.i, last.arg.j, last.arg.dx).ok
      [] last.op = "calcWithdrawOneCoin" ->
            calcWithdrawOneCoinQuote(last.pre, last.arg.burnAmount, last.arg.i).ok
      [] last.op = "calcTokenAmount" ->
            IF last.arg.isDeposit THEN addLiquidityQuote(last.pre, last.arg.amounts).ok
            ELSE removeLiquidityImbalanceQuote(last.pre, last.arg.amounts).ok

\* C22: getDy, calcWithdrawOneCoin and calcTokenAmount leave balances, adminBalances
\* and totalSupply unchanged, fail exactly when the quote phase of their mutating
\* form (exchange, removeLiquidityOneCoin, addLiquidity, removeLiquidityImbalance)
\* fails, and return the value the mutating form returns on the same state.
C22_QuotesAgree ==
    last.op \in QuoteOps \ {"getDx"} =>
        /\ Engine = last.pre
        /\ last.res.ok <=> QuotePhaseOk
        /\ ~last.res.ok => ~MutatingForm.ok
        /\ MutatingForm.ok => last.res.ok /\ last.res.v = MutatingForm.v

\* a one-coin withdrawal was quoted on a pool after an exchange, and the withdrawal
\* itself pays that amount
C22_Witness ==
    /\ last.op = "calcWithdrawOneCoin" /\ last.res.ok /\ last.res.v > 0
    /\ MutatingForm.ok /\ MutatingForm.v = last.res.v
    /\ steps = 1

\* ---- get_dx ----
\* while (hi <= maxDx && this.getDy(i, j, hi) < dy) hi *= 2n : [ok, v = hi]
RECURSIVE getDx_expand(_, _, _, _, _, _)
getDx_expand(e, i, j, dy, maxDx, hi) ==
    LET Bind(v, K(_)) == K(v) IN
    IF ~(hi <= maxDx) THEN Ok(hi)
    ELSE
    Bind(getDy(e, i, j, hi), LAMBDA q :
    IF ~q.ok THEN Throw
    ELSE IF q.v < dy THEN getDx_expand(e, i, j, dy, maxDx, hi * 2)
    ELSE Ok(hi))

\* while (lo < hi) { mid = (lo + hi) / 2n; ... } : [ok, v = lo]
RECURSIVE getDx_bisect(_, _, _, _, _, _)
getDx_bisect(e, i, j, dy, lo, hi) ==
    LET Bind(v, K(_)) == K(v)
        mid == Div(lo + hi, 2)
    IN
    IF ~(lo < hi) THEN Ok(lo)
    ELSE
    Bind(getDy(e, i, j, mid), LAMBDA q :
    IF ~q.ok THEN Throw
    ELSE IF q.v >= dy THEN getDx_bisect(e, i, j, dy, lo, mid)
    ELSE getDx_bisect(e, i, j, dy, mid + 1, hi))

getDx(e, i, j, dy, maxDx) ==
    LET Bind(v, K(_)) == K(v) IN
    Bind(getDx_expand(e, i, j, dy, maxDx, 1), LAMBDA x :
    IF ~x.ok THEN Throw
    ELSE IF x.v > maxDx THEN
        Bind(getDy(e, i, j, maxDx), LAMBDA q :
        IF ~q.ok THEN Throw
        ELSE IF q.v < dy THEN Throw
        ELSE getDx_bisect(e, i, j, dy, 1, maxDx))
    ELSE getDx_bisect(e, i, j, dy, 1, x.v))

GetDx ==
    \E i \in Coins, j \in Coins, dy \in Amounts,
       maxDx \in Amounts \cup MaxInputs \cup LargeAmounts :
        /\ i # j
        /\ Quote("getDx", [i |-> i, j |-> j, dy |-> dy, maxDx |-> maxDx],
                 getDx(Engine, i, j, dy, maxDx))

\* the pure methods, called on a pool as constructed or after one exchange
NextQuotes ==
    \/ Exchange
    \/ GetDy
    \/ CalcWithdrawOneCoin
    \/ CalcTokenAmount
    \/ GetDx

SpecQuotes == Init /\ [][NextQuotes]_vars

\* C23: the swap quote is monotone: on a fixed engine state and coin pair, for
\* amounts 0 < dx1 <= dx2 whose quotes both succeed, getDy(i, j, dx1) <=
\* getDy(i, j, dx2).
C23_QuoteMonotone ==
    (last.op = "getDy" /\ last.res.ok) =>
        \A dx1 \in 1 .. last.arg.dx :
            getDy(last.pre, last.arg.i, last.arg.j, dx1).ok =>
                getDy(last.pre, last.arg.i, last.arg.j, dx1).v <= last.res.v

\* the swap quote of the last getDx call's coin pair on the state it was called on
DxQuote(dx) == getDy(last.pre, last.arg.i, last.arg.j, dx)
\* dx is quoted at least the output the last getDx call asked for
Reaches(dx) == DxQuote(dx).ok /\ DxQuote(dx).v >= last.arg.dy

\* C24: getDx(i, j, dy, maxDx) fails if getDy(i, j, maxDx) < dy; otherwise it
\* returns the least dx in [1, maxDx] with getDy(i, j, dx) >= dy, so that
\* getDy(i, j, dx - 1) < dy when dx > 1; it leaves the engine state unchanged.
C24_InverseQuote ==
    last.op = "getDx" =>
        /\ Engine = last.pre
        /\ (DxQuote(last.arg.maxDx).ok /\ DxQuote(last.arg.maxDx).v < last.arg.dy) =>
                ~last.res.ok
        /\ Reaches(last.arg.maxDx) =>
                /\ last.res.ok
                /\ last.res.v \in 1 .. last.arg.maxDx
                /\ Reaches(last.res.v)
                /\ \A dx \in 1 .. (last.res.v - 1) : ~Reaches(dx)

\* ---------------------------------------------------------------- arrays and sharing
\* Here an object (an engine, a snapshot) holds its two arrays by address, and
\* heap.mem gives the contents of each array, so that two objects holding the same
\* array see each other's in-place writes.
NoObj == [balances |-> -1, adminBalances |-> -1, totalSupply |-> -1]
Obj(b, a, ts) == [balances |-> b, adminBalances |-> a, totalSupply |-> ts]

\* what object o holds, as values
View(mem, o) ==
    IF o = NoObj THEN NoSnap
    ELSE [balances |-> mem[o.balances], adminBalances |-> mem[o.adminBalances],
          totalSupply |-> o.totalSupply]

\* a new array with contents v (slice(), new Array), at the first free address:
\* [mem, a]
Alloc(mem, v) ==
    LET a == CHOOSE x \in 0 .. Cardinality(DOMAIN mem) :
                /\ x \notin DOMAIN mem
                /\ \A y \in 0 .. (x - 1) : y \in DOMAIN mem
    IN  [mem |-> (a :> v) @@ mem, a |-> a]

\* an object of fresh copies of the arrays at bal and adm: [mem, o, ok, v]
Copies(mem, bal, ts, adm) ==
    LET x == Alloc(mem, mem[bal])
        y == Alloc(x.mem, x.mem[adm])
    IN  [mem |-> y.mem, o |-> Obj(x.a, y.a, ts), ok |-> TRUE, v |-> 0]

\* the constructor as it would be if it kept the arrays it is given
hConstructor_shared(mem, bal, ts, adm) ==
    [mem |-> mem, o |-> Obj(bal, adm, ts), ok |-> TRUE, v |-> 0]

\* this.balances = balances.slice(); this.adminBalances = adminBalances.slice()
hConstructor(mem, bal, ts, adm) == Copies(mem, bal, ts, adm)

\* new CurveStableSwapNG(this.p, this.balances, this.totalSupply, this.adminBalances)
hClone(mem, o) == hConstructor(mem, o.balances, o.totalSupply, o.adminBalances)

\* { balances: this.balances.slice(), adminBalances: this.adminBalances.slice(),
\*   totalSupply: this.totalSupply }
hSnapshot(mem, o) == Copies(mem, o.balances, o.totalSupply, o.adminBalances)

\* restore as it would be if it kept the snapshot's arrays
hRestore_shared(mem, o, s) ==
    [mem |-> mem, o |-> Obj(s.balances, s.adminBalances, s.totalSupply),
     ok |-> TRUE, v |-> 0]

\* this.balances = s.balances.slice(); this.adminBalances = s.adminBalances.slice()
hRestore(mem, o, s) == Copies(mem, s.balances, s.totalSupply, s.adminBalances)

\* the outcome r of a method that writes this.balances[i], this.adminBalances[i]
\* and this.totalSupply in place
InPlace(mem, o, r) ==
    [mem |-> [mem EXCEPT ![o.balances] = r.e.balances,
                         ![o.adminBalances] = r.e.adminBalances],
     o |-> [o EXCEPT !.totalSupply = r.e.totalSupply], ok |-> r.ok, v |-> r.v]

\* this.balances = r.newBalances; this.adminBalances = r.newAdminBalances
hExchange(mem, o, i, j, dx) ==
    LET r == exchange(View(mem, o), i, j, dx)
        x == Alloc(mem, r.e.balances)
        y == Alloc(x.mem, r.e.adminBalances)
    IN  IF ~r.ok THEN [mem |-> mem, o |-> o, ok |-> FALSE, v |-> 0]
        ELSE [mem |-> y.mem, o |-> Obj(x.a, y.a, o.totalSupply), ok |-> TRUE, v |-> r.v]

hAddLiquidity(mem, o, amounts) == InPlace(mem, o, addLiquidity(View(mem, o), amounts))

hRemoveLiquidity(mem, o, burnAmount) ==
    InPlace(mem, o, removeLiquidity(View(mem, o), burnAmount, FALSE))

hRemoveLiquidityOneCoin(mem, o, burnAmount, i) ==
    InPlace(mem, o, removeLiquidityOneCoin(View(mem, o), burnAmount, i))

hRemoveLiquidityImbalance(mem, o, amounts) ==
    InPlace(mem, o, removeLiquidityImbalance(View(mem, o), amounts, Undefined))

\* this.adminBalances = new Array(this.p.n).fill(0n)
hWithdrawAdminFees(mem, o) ==
    LET y == Alloc(mem, ZeroAmounts)
    IN  [mem |-> y.mem, o |-> [o EXCEPT !.adminBalances = y.a], ok |-> TRUE,
         v |-> mem[o.adminBalances]]

\* the arrays held by the objects the caller holds
Live(h) ==
    UNION {{o.balances, o.adminBalances} :
             o \in ({h.engine, h.copy} \cup {h.shots[k] : k \in DOMAIN h.shots}) \ {NoObj}}

\* what every object holds
Views(h) ==
    [engine |-> View(h.mem, h.engine), copy |-> View(h.mem, h.copy),
     shots |-> [k \in DOMAIN h.shots |-> View(h.mem, h.shots[k])]]

\* a pool as constructed, its two arrays in memory; no clone, no snapshot
InitSharing ==
    /\ p \in ParamSet
    /\ balances \in [Coins -> 1 .. MaxBal]
    /\ adminBalances = ZeroAmounts
    /\ totalSupply = SumXp(balances, 0)
    /\ snap = NoSnap
    /\ snapAt = <<>>
    /\ steps = 0
    /\ heap = [mem |-> (0 :> balances) @@ (1 :> adminBalances),
               engine |-> Obj(0, 1, totalSupply), copy |-> NoObj, shots |-> <<>>,
               restored |-> <<>>, restores |-> 0]
    /\ last = [op |-> "constructor", arg |-> <<>>, pre |-> Views(heap), res |-> <<>>]
    /\ run = NoRun

\* the heap after a call, unreachable arrays dropped; balances, adminBalances and
\* totalSupply are what the engine holds
SetHeap(h) ==
    /\ heap' = [h EXCEPT !.mem = [a \in Live(h) |-> h.mem[a]]]
    /\ balances' = h.mem[h.engine.balances]
    /\ adminBalances' = h.mem[h.engine.adminBalances]
    /\ totalSupply' = h.engine.totalSupply

\* the amount of the calls whose sharing is followed
SharingAmounts == {2}

SharingOps == {"exchange", "addLiquidity", "removeLiquidity", "removeLiquidityOneCoin",
               "removeLiquidityImbalance", "withdrawAdminFees"}

\* a mutating call on the engine or on its clone (on = "engine" or "copy"), with
\* outcome r = [mem, o, ok, v]
MutateOn(on, op, arg, r) ==
    /\ heap[on] # NoObj
    /\ steps < MaxSteps + 1
    /\ steps' = steps + 1
    /\ SetHeap([heap EXCEPT !.mem = r.mem, ![on] = r.o])
    /\ last' = [op |-> op, arg |-> arg, on |-> on, pre |-> Views(heap),
                res |-> [ok |-> r.ok, v |-> r.v]]
    /\ UNCHANGED <<p, snap, snapAt, run>>

CallOn(on) ==
    \E a \in SharingAmounts :
        LET o == heap[on]
            i == 0
            j == 1
        IN
        \/ MutateOn(on, "exchange", [i |-> i, j |-> j, dx |-> a],
                    hExchange(heap.mem, o, i, j, a))
        \/ MutateOn(on, "addLiquidity", [amounts |-> OneSided(i, a)],
                    hAddLiquidity(heap.mem, o, OneSided(i, a)))
        \/ MutateOn(on, "removeLiquidity", [burnAmount |-> a],
                    hRemoveLiquidity(heap.mem, o, a))
        \/ MutateOn(on, "removeLiquidityOneCoin", [burnAmount |-> a, i |-> i],
                    hRemoveLiquidityOneCoin(heap.mem, o, a, i))
        \/ MutateOn(on, "removeLiquidityImbalance", [amounts |-> OneSided(i, a)],
                    hRemoveLiquidityImbalance(heap.mem, o, OneSided(i, a)))
        \/ MutateOn(on, "withdrawAdminFees", <<>>, hWithdrawAdminFees(heap.mem, o))

\* const c = engine.clone(): the caller keeps one clone
Clone ==
    /\ heap.copy = NoObj
    /\ LET r == hClone(heap.mem, heap.engine)
       IN  SetHeap([heap EXCEPT !.mem = r.mem, !.copy = r.o])
    /\ last' = [op |-> "clone", arg |-> <<>>, on |-> "engine", pre |-> Views(heap),
                res |-> [ok |-> TRUE, v |-> 0]]
    /\ UNCHANGED <<p, snap, snapAt, steps, run>>

NextClone ==
    \/ Clone
    \/ CallOn("engine")
    \/ CallOn("copy")

SpecClone == InitSharing /\ [][NextClone]_vars

\* the object the last call was not made on
Other == IF last.on = "engine" THEN "copy" ELSE "engine"

\* C25: a clone holds the balances, adminBalances and totalSupply of the original
\* (and its parameters, p being the one parameter record of both), and a mutating
\* operation on the original or on the clone never changes the balances,
\* adminBalances or totalSupply of the other.
C25_CloneIndependent ==
    /\ last.op = "clone" =>
            /\ Views(heap).copy = last.pre.engine
            /\ Views(heap).engine = last.pre.engine
    /\ (last.op \in SharingOps /\ heap.copy # NoObj) =>
            Views(heap)[Other] = last.pre[Other]

\* the clone was written in place after the original had moved away from it
C25_Witness ==
    /\ last.op = "addLiquidity" /\ last.on = "copy" /\ last.res.ok
    /\ Views(heap).copy # last.pre.copy
    /\ last.pre.copy # last.pre.engine

\* the larger pools with the dynamic fee, whose snapshots are followed
InitSnapshots ==
    /\ InitSharing
    /\ p.offpegFeeMultiplier > FEE_DENOMINATOR
    /\ \A c \in Coins : balances[c] >= MaxBal - 1

\* const s = engine.snapshot(): the caller keeps up to MaxSteps + 1 snapshots;
\* snapAt remembers what the engine held when each was taken, heap.restored how
\* often each was restored
TakeSnapshot ==
    /\ Len(heap.shots) < MaxSteps + 1
    /\ LET r == hSnapshot(heap.mem, heap.engine)
       IN  SetHeap([heap EXCEPT !.mem = r.mem, !.shots = Append(@, r.o),
                                !.restored = Append(@, 0)])
    /\ snapAt' = Append(snapAt, Views(heap).engine)
    /\ last' = [op |-> "snapshot", arg |-> <<>>, on |-> "engine", pre |-> Views(heap),
                res |-> [ok |-> TRUE, v |-> 0]]
    /\ UNCHANGED <<p, snap, steps, run>>

\* engine.restore(s) for a snapshot s the caller keeps, MaxSteps + 1 times in all
RestoreShot ==
    \E k \in DOMAIN heap.shots :
        /\ heap.restores < MaxSteps + 1
        /\ LET r == hRestore(heap.mem, heap.engine, heap.shots[k])
           IN  SetHeap([heap EXCEPT !.mem = r.mem, !.engine = r.o,
                                    !.restored[k] = @ + 1, !.restores = @ + 1])
        /\ last' = [op |-> "restore", arg |-> [k |-> k], on |-> "engine",
                    pre |-> Views(heap), res |-> [ok |-> TRUE, v |-> 0]]
        /\ UNCHANGED <<p, snap, snapAt, steps, run>>

\* the engine's arrays are replaced (exchange) or written in place (addLiquidity,
\* removeLiquidity)
WriteEngine ==
    \E a \in SharingAmounts :
        LET o == heap.engine
        IN
        \/ MutateOn("engine", "exchange", [i |-> 0, j |-> 1, dx |-> a],
                    hExchange(heap.mem, o, 0, 1, a))
        \/ MutateOn("engine", "addLiquidity", [amounts |-> OneSided(0, a)],
                    hAddLiquidity(heap.mem, o, OneSided(0, a)))
        \/ MutateOn("engine", "removeLiquidity", [burnAmount |-> a],
                    hRemoveLiquidity(heap.mem, o, a))

NextSnapshots ==
    \/ TakeSnapshot
    \/ RestoreShot
    \/ WriteEngine

SpecSnapshots == InitSnapshots /\ [][NextSnapshots]_vars

\* C27: a snapshot holds what the engine held when it was taken, and keeps holding
\* it whatever is called on the engine afterwards (mutating calls, further
\* snapshots, restores of this or of another snapshot); a restore leaves the
\* engine holding exactly what the snapshot restored was taken at, the second
\* time as the first.
C27_SnapshotIsolated ==
    /\ \A k \in DOMAIN heap.shots : Views(heap).shots[k] = snapAt[k]
    /\ last.op = "restore" => Views(heap).engine = snapAt[last.arg.k]
    /\ last.op = "snapshot" => Views(heap).engine = last.pre.engine

\* the outer of two nested snapshots is restored a second time, the engine having
\* changed since the first restore
C27_Witness ==
    /\ last.op = "restore" /\ last.arg.k = 1
    /\ Len(heap.shots) > 1
    /\ heap.restored[1] > 1
    /\ last.pre.engine # snapAt[1]
    /\ snapAt[2] # snapAt[1]

\* ---------------------------------------------------------------- the loops, step by step
\* Here one evaluation of a loop condition with the body it guards is one step:
\* run holds the loop's position (pc), its variables lo and hi, the number of
\* probes of the doubling loop and the number of passes of the bisection loop. Every probe runs in a bracket that restores the
\* engine, so what a probe of amount x returns is the same whenever it is made:
\* run.probe[x], for the amounts up to the caller's bound.

\* the probe's price has not reached the target
Short(dir, price, target) ==
    (dir.needToLowerPrice /\ price > target) \/ (~dir.needToLowerPrice /\ price < target)

\* the bisection for a minimum keeping lo = mid where the code has lo = mid + 1
bisectMin_next_keepMid(lo, hi, mid, reached) ==
    IF reached THEN [lo |-> lo, hi |-> mid] ELSE [lo |-> mid, hi |-> hi]

\* if (reached) hi = mid; else lo = mid + 1n
bisectMin_next(lo, hi, mid, reached) ==
    IF reached THEN [lo |-> lo, hi |-> mid] ELSE [lo |-> mid + 1, hi |-> hi]

\* if (withinPeg) lo = mid; else hi = mid - 1n
bisectMax_next(lo, hi, mid, within) ==
    IF within THEN [lo |-> mid, hi |-> hi] ELSE [lo |-> lo, hi |-> mid - 1]

\* one pass of the body of getD's loop from D: the next D
getD_next(x, Ann, S, D) ==
    LET Bind(v, K(_)) == K(v) IN
    IF \E k \in Coins : x[k] = 0 THEN Throw
    ELSE
    Bind(Div(getD_DP(x, D, D, 0), PowInt(N, N)), LAMBDA DP :
    Bind((Div(Ann * S, A_PRECISION) + DP * N) * D, LAMBDA num :
    Bind(Div((Ann - A_PRECISION) * D, A_PRECISION) + (N + 1) * DP, LAMBDA den :
    IF den = 0 THEN Throw ELSE Ok(Div(num, den)))))

Running(r) ==
    /\ run' = r
    /\ UNCHANGED <<p, balances, adminBalances, totalSupply, snap, snapAt, steps, last, heap>>

\* a target-crossing solver is called and has inferred its direction: lo = hi = 1
StartTarget ==
    \E op \in TargetOps, target \in Targets, max \in 0 .. MaxAmt :
        /\ run.pc = "idle"
        /\ LET Bind(v, K(_)) == K(v) IN
           Bind(priceCoin0ToK_1e18(Engine, 1), LAMBDA pr :
           /\ pr.ok /\ pr.v # target
           /\ Bind(direction(op, pr.v > target, 1), LAMBDA dir :
              Running([pc |-> "expand", op |-> op, target |-> target, max |-> max,
                       dir |-> dir, lo |-> 1, hi |-> 1, doubling |-> 0, passes |-> 0,
                       probe |-> [x \in 0 .. max |->
                                    postPrice(op, Machine(Engine), dir, x, 1)]])))

\* while (hi <= max && postPrice(hi) {>,<} target) hi *= 2n
ExpandStep ==
    /\ run.pc = "expand"
    /\ IF ~(run.hi <= run.max) THEN Running([run EXCEPT !.pc = "atMax"])
       ELSE IF ~run.probe[run.hi].ok
       THEN Running([run EXCEPT !.pc = "threw", !.doubling = @ + 1])
       ELSE IF Short(run.dir, run.probe[run.hi].price, run.target)
       THEN Running([run EXCEPT !.hi = @ * 2, !.doubling = @ + 1])
       ELSE Running([run EXCEPT !.pc = "atMax", !.doubling = @ + 1])

\* if (hi > max) { maxPrice = postPrice(max); ... return { canFulfill: false }; hi = max }
AtMaxStep ==
    /\ run.pc = "atMax"
    /\ IF ~(run.hi > run.max) THEN Running([run EXCEPT !.pc = "bisectMin"])
       ELSE IF ~run.probe[run.max].ok THEN Running([run EXCEPT !.pc = "threw"])
       ELSE IF Short(run.dir, run.probe[run.max].price, run.target)
       THEN Running([run EXCEPT !.pc = "done", !.lo = run.max, !.hi = run.max])
       ELSE Running([run EXCEPT !.pc = "bisectMin", !.hi = run.max])

\* while (lo < hi) { mid = (lo + hi) / 2n; ... }
BisectMinStep ==
    /\ run.pc = "bisectMin"
    /\ LET mid == Div(run.lo + run.hi, 2)
           n == bisectMin_next(run.lo, run.hi, mid,
                               ~Short(run.dir, run.probe[mid].price, run.target))
       IN  IF ~(run.lo < run.hi) THEN Running([run EXCEPT !.pc = "done"])
           ELSE IF ~run.probe[mid].ok THEN Running([run EXCEPT !.pc = "threw"])
           ELSE Running([run EXCEPT !.lo = n.lo, !.hi = n.hi, !.passes = @ + 1])

\* a peg-clamp solver is called and has probed the desired amount: lo = 0,
\* hi = desired unless that lands in the band
StartPeg ==
    \E op \in PegOps, desired \in 0 .. MaxAmt, i \in Coins, band \in Bands :
        /\ run.pc = "idle"
        /\ LET Bind(v, K(_)) == K(v)
               a == [iIn |-> i, jOut |-> (i + 1) % N, coinIndex |-> i]
           IN
           Bind([x \in 0 .. desired |-> postPriceAnd(op, Machine(Engine), a, x, 1)],
                LAMBDA probe :
           Bind([pc |-> "bisectMax", op |-> op, a |-> a, pegMin |-> band[1],
                 pegMax |-> band[2], max |-> desired, lo |-> 0, hi |-> desired,
                 doubling |-> 0, passes |-> 0, probe |-> probe], LAMBDA started :
           Running(IF ~probe[desired].ok THEN [started EXCEPT !.pc = "threw"]
                   ELSE IF withinPeg(probe[desired].price, band[1], band[2])
                   THEN [started EXCEPT !.pc = "done", !.lo = desired]
                   ELSE started)))

\* while (lo < hi) { mid = (lo + hi + 1n) / 2n; ... }
BisectMaxStep ==
    /\ run.pc = "bisectMax"
    /\ LET mid == Div(run.lo + run.hi + 1, 2)
           n == bisectMax_next(run.lo, run.hi, mid,
                               withinPeg(run.probe[mid].price, run.pegMin, run.pegMax))
       IN  IF ~(run.lo < run.hi) THEN Running([run EXCEPT !.pc = "done"])
           ELSE IF ~run.probe[mid].ok THEN Running([run EXCEPT !.pc = "threw"])
           ELSE Running([run EXCEPT !.lo = n.lo, !.hi = n.hi, !.passes = @ + 1])

\* getD(xp) is called, on the pool's balances as they are or in finer units:
\* D = S, iter = 0
StartGetD ==
    \E unit \in {1, 10, 100} :
        LET x == [c \in Coins |-> xp(balances)[c] * unit]
            S == SumXp(x, 0)
        IN  /\ run.pc = "idle"
            /\ Running(IF S = 0 THEN [pc |-> "done", op |-> "getD", D |-> 0, iter |-> 0]
                        ELSE [pc |-> "newton", op |-> "getD", x |-> x, Ann |-> p.amp * N,
                              S |-> S, D |-> S, iter |-> 0])

\* for (let iter = 0; iter < 255; iter++) { ...; if (abs(D - Dprev) <= 1n) return D }
NewtonStep ==
    /\ run.pc = "newton"
    /\ Running(LET Bind(v, K(_)) == K(v) IN
               IF ~(run.iter < NEWTON_ITERS) THEN [run EXCEPT !.pc = "threw"]
               ELSE
               Bind(getD_next(run.x, run.Ann, run.S, run.D), LAMBDA d :
               IF ~d.ok THEN [run EXCEPT !.pc = "threw"]
               ELSE IF abs(d.v - run.D) <= 1 THEN [run EXCEPT !.pc = "done", !.D = d.v]
               ELSE [run EXCEPT !.D = d.v, !.iter = @ + 1]))

NextLoops ==
    \/ StartTarget
    \/ StartPeg
    \/ StartGetD
    \/ ExpandStep
    \/ AtMaxStep
    \/ BisectMinStep
    \/ BisectMaxStep
    \/ NewtonStep

\* a call that has started keeps running: nothing but its own steps can delay it
SpecLoops ==
    /\ Init
    /\ [][NextLoops]_vars
    /\ WF_vars(ExpandStep \/ AtMaxStep \/ BisectMinStep \/ BisectMaxStep \/ NewtonStep)

\* floor(log2(n)) for n >= 1
RECURSIVE Log2(_)
Log2(n) == IF n <= 1 THEN 0 ELSE 1 + Log2(Div(n, 2))

Ended == run.pc \in {"done", "threw"}

GetPriceAndInputFor ==
    \E solver \in OutputOps, target \in 0 .. MaxAmt, i \in Coins,
       maxInput \in {0} \cup MaxInputs :
        LET a == [iIn |-> i, jOut |-> (i + 1) % N, coinIndex |-> i]
        IN  /\ Fresh
            /\ Solve("getPriceAndInputFor",
                     [solver |-> solver, a |-> a, target |-> target,
                      maxInput |-> maxInput, k |-> 1],
                     getPriceAndInputFor(solver, Machine(Engine), a, target, maxInput, 1))

SpecInner == Init /\ [][GetPriceAndInputFor]_vars

\* the quote of input x on the state the inner search was called in
InnerQuoteAt(x) ==
    innerQuote(last.arg.solver, last.pre, last.arg.a, x, last.arg.maxInput)

\* C28: when the inner search returns a result for target t, its input x lies in
\* 1 .. inputBound, quote(x) >= t and, for x > 1, quote(x - 1) < t, the quotes
\* taken on the engine as it was before the call.
C28_InnerMinimal ==
    (last.op = "getPriceAndInputFor" /\ last.res.found) =>
        LET x == last.res.input
        IN  /\ 1 <= x /\ x <= last.arg.maxInput
            /\ InnerQuoteAt(x).ok /\ InnerQuoteAt(x).v >= last.arg.target
            /\ x > 1 => (InnerQuoteAt(x - 1).ok
                         /\ InnerQuoteAt(x - 1).v < last.arg.target)

\* Pools whose fee is high enough for the admin share of the fee to be a whole
\* unit at the model's scale: the largest fee, static or reached by the
\* off-peg multiplier.
InitExchange ==
    /\ p \in { [amp |-> 200 * A_PRECISION, fee |-> f[1], offpegFeeMultiplier |-> f[2],
                rates |-> [i \in Coins |-> PRECISION]] :
                f \in {<<FEE_DENOMINATOR \div 2, FEE_DENOMINATOR>>,
                       <<FEE_DENOMINATOR \div 4, 2 * FEE_DENOMINATOR>>} }
    /\ balances \in [Coins -> 1 .. MaxBal]
    /\ adminBalances = ZeroAmounts
    /\ totalSupply = SumXp(balances, 0)
    /\ snap = NoSnap
    /\ snapAt = NoSnap
    /\ steps = 0
    /\ last = [op |-> "constructor", arg |-> <<>>, pre |-> Engine, res |-> <<>>]
    /\ heap = NoHeap
    /\ run = NoRun

\* exchange(i, j, dx) with any indices of the pool and any amount: the checks of
\* i !== j and dx > 0n are console asserts and stop nothing
ExchangeCall ==
    \E i \in Coins, j \in Coins, dx \in (0 - MaxAmt) .. MaxAmt :
        Mutate("exchange", [i |-> i, j |-> j, dx |-> dx], exchange(Engine, i, j, dx))

SpecExchange == (Init \/ InitExchange) /\ [][ExchangeCall]_vars

\* C29: a step in which exchange(i, j, dx) returns dy adds exactly dx to
\* balances[i], takes exactly dy from balances[j] + adminBalances[j], does not
\* lower adminBalances[j], and leaves totalSupply, adminBalances[i], every other
\* coin and the pool parameters as they were.
C29_ExchangeFrame ==
    [][(steps' # steps /\ last'.op = "exchange" /\ last'.res.ok) =>
        LET i == last'.arg.i
            j == last'.arg.j
        IN  /\ balances'[i] = balances[i] + last'.arg.dx
            /\ balances'[j] + adminBalances'[j]
                   = balances[j] + adminBalances[j] - last'.res.v
            /\ adminBalances'[j] >= adminBalances[j]
            /\ adminBalances'[i] = adminBalances[i]
            /\ totalSupply' = totalSupply
            /\ \A c \in Coins \ {i, j} :
                   balances'[c] = balances[c] /\ adminBalances'[c] = adminBalances[c]
            /\ p' = p]_vars

\* C30: a target-crossing solver that returns, with canFulfill true or false,
\* returns an amount a with 0 <= a <= max, max being the caller's maxDx,
\* maxAmount or maxBurn (totalSupply when maxBurn is left out).
C30_WithinBound ==
    TargetReturned => (0 <= TargetAmount /\ TargetAmount <= TargetMax)
====
